---- MODULE Spec2Model ----
(***************************************************************************)
(* Verification model of the kuralit realtime server.                      *)
(*                                                                         *)
(*  - AudioRecognitionHandler (server/audio_recognition.py): the STT       *)
(*    streaming task, the receive loop that delivers VAD events and calls  *)
(*    stop(), and the EOU detection tasks, as asyncio tasks that           *)
(*    interleave at their await points.                                    *)
(*  - AgentHandler.process_text_async (server/agent_handler.py) and        *)
(*    Model.response (models/base.py): the tool-call loops.                *)
(*                                                                         *)
(* Strings are sequences of characters; character 0 is the space, a        *)
(* character n > 0 stands for the word carried by the n-th final.          *)
(***************************************************************************)
EXTENDS Integers, Sequences, FiniteSets, TLC

\* ---------------------------------------------------------------- bounds
MaxFinals == 3
MaxVad == 2
MaxInterims == 1
MinDelay == 1
MaxDelay == 2
Threshold == 1
MaxProb == 2
MaxChunks == 2
MaxTurns == 1
MaxRounds == 2
MaxFrames == 3
MaxStarts == 3
MaxErrors == 3
MaxNow == 4
SessionTimeout == 2
MaxClientFrames == 3
MaxSubscribers == 3
MaxEvents == 1
MaxVadFrames == 3
MaxSidLen == 3
MaxDashSent == 5
MaxSessionTurns == 2
MaxConnections == 3

\* ----------------------------------------------------------------- state
VARIABLES
    audio_transcript,          \* self._audio_transcript
    audio_interim_transcript,  \* self._audio_interim_transcript
    last_final_transcript_time, \* self._last_final_transcript_time is set
    speaking,                  \* self._speaking
    closing,                   \* self._closing
    sentinel_queued,           \* the None sentinel has been put on _audio_queue
    turn_detector,             \* self._turn_detector is configured
    eou_detection_task,        \* self._eou_detection_task: task id, 0 = None
    eou_tasks,                 \* every EOU task ever created, by id
    stt_pc, stt_wait,          \* position of _stt_streaming_task
    rl_pc, rl_wait,            \* position of the connection's receive loop
    finals,                    \* history: finals yielded by the STT stream
    interims,                  \* history: number of interims yielded
    vad_events,                \* history: number of VAD events handled
    commits                    \* history: on_turn_end invocations

arVars == <<audio_transcript, audio_interim_transcript,
            last_final_transcript_time, speaking, closing,
            sentinel_queued, turn_detector, eou_detection_task, eou_tasks,
            stt_pc, stt_wait, rl_pc, rl_wait, finals, interims, vad_events,
            commits>>

\* AgentHandler.process_text_async and Model.response
VARIABLES
    conversation,              \* session.conversation_history
    emitted,                   \* messages yielded by the running iteration
    ag_pc,                     \* position of process_text_async
    assistant_message,         \* the placeholder assistant Message
    accumulated_text,          \* accumulated_text
    final_text,                \* final_text of the second stream
    tool_calls_to_execute,     \* tool_calls_to_execute
    tc_idx,                    \* index of the tool call being handled
    function_call_results,     \* function_call_results
    chunks,                    \* history: chunks yielded by the current stream
    model_calls,               \* history: tool calls the model asked for
    turns,                     \* history: turns started
    tool_outcomes,             \* history: how each handled tool call ended
    tool_events,               \* history: tool_call_* events published
    messages,                  \* Model.response: the messages list
    mr_pc,                     \* Model.response: position
    function_call_count,       \* Model.response: function_call_count
    tool_call_limit            \* Model.response: tool_call_limit, 0 = None

agVars == <<conversation, emitted, ag_pc, assistant_message,
            accumulated_text, final_text, tool_calls_to_execute, tc_idx,
            tool_outcomes, tool_events,
            function_call_results, chunks, model_calls, turns>>

mrVars == <<messages, mr_pc, function_call_count, tool_call_limit>>

\* the audio queue between push_audio_frame and the STT client
VARIABLES
    audio_queue,               \* self._audio_queue
    gen_done,                  \* audio_generator read the sentinel and ended
    frames_pushed,             \* history: frames push_audio_frame accepted
    frames_yielded             \* history: frames audio_generator yielded

aqVars == <<audio_queue, gen_done, frames_pushed, frames_yielded>>

\* the session's audio stream and the coordinators created for it
VARIABLES
    is_audio_active,           \* session.is_audio_active
    audio_recognition_handler, \* session.audio_recognition_handler: index
                               \* into recognition_handlers, 0 = None
    recognition_handlers,      \* every AudioRecognitionHandler created
    audio_chunk_count,         \* session._audio_chunk_count
    ws_errors                  \* history: server_error messages sent

seVars == <<is_audio_active, audio_recognition_handler, recognition_handlers,
            audio_chunk_count, ws_errors>>

\* websocket_endpoint: one connection and the session store
VARIABLES
    ws_pc,                     \* "accepted", "open" (message loop), "closed"
    sessions,                  \* sessions: id -> last_activity, or Absent
    now,                       \* time.time(), in ticks
    events,                    \* session event types published on the bus
    ws_connected,              \* server_connected was sent
    frames_received            \* history: per client frame, did it parse

cnVars == <<ws_pc, sessions, now, events, ws_connected, frames_received>>

\* EventBus
VARIABLES
    subscribers,               \* self._subscribers
    cb_kind,                   \* what each subscribed callback is and does
    eb_pc,                     \* publish: "idle" or "gather" (awaiting)
    eb_snapshot,               \* subscribers_copy
    eb_tasks,                  \* tasks: subscribers with a coroutine or thread
    invoked,                   \* history: calls of each callback, this event
    eb_result,                 \* history: how the last publish ended
    event_count                \* self._event_count

ebVars == <<subscribers, cb_kind, eb_pc, eb_snapshot, eb_tasks, invoked,
            eb_result, event_count>>

\* the VAD handler of the AgentSession, handed to every Session
VARIABLES
    is_speaking,               \* SileroVADHandler._is_speaking
    vad_delivered              \* history: VAD events forwarded, per session

vdVars == <<is_speaking, vad_delivered>>

\* a coordinator whose start() is called more than once
VARIABLES
    stt_stream_task,           \* self._stt_stream_task: task id, 0 = None
    stt_tasks,                 \* every STT streaming task created, by id
    st_audio_queue,            \* self._audio_queue
    st_closing,                \* self._closing
    st_frames,                 \* history: frames accepted by push_audio_frame
    stop_pc                    \* stop(): "idle", "wait_stt" or "stopped"

stVars == <<stt_stream_task, stt_tasks, st_audio_queue, st_closing,
            st_frames, stop_pc>>

\* the wire codec applied to one raw client message
VARIABLES
    wire_in,                   \* raw_message, the dict from json.loads
    wire_out,                  \* the parsed message, dumped again
    wire_pc                    \* "none", "accepted" or "rejected"

wcVars == <<wire_in, wire_out, wire_pc>>

\* dashboard_endpoint: one dashboard connection
VARIABLES
    db_pc,                     \* position of dashboard_endpoint
    db_subscribed,             \* event_callback is subscribed to the bus
    connection_active,         \* connection_active
    db_sent                    \* history: the messages sent on the socket

dbVars == <<db_pc, db_subscribed, connection_active, db_sent>>

\* the agent turns of one session, by the task that runs them
VARIABLES
    turn_pc,                   \* per source: "idle", "stream", "stream2"
    turn_no,                   \* history: turns started, per source
    turn_conversation          \* session.conversation_history, with the
                               \* turn that appended each message

tnVars == <<turn_pc, turn_no, turn_conversation>>

\* the sample rates of one session's audio streams and of its VAD handler
VARIABLES
    vad_mode,                  \* "none" (no session yet), "provided" (the
                               \* handler of the AgentSession), "plugin"
                               \* (created at the first stream), "disabled"
    vad_initialized,           \* session._vad_initialized
    vad_sample_rate,           \* session.vad_handler._sample_rate, 0 = None
    provided_sample_rate,      \* _sample_rate of session._vad_handler
    stream_sample_rate,        \* audio_buffer.sample_rate
    stream_active,             \* session.is_audio_active
    stream_count               \* history: audio streams started

srVars == <<vad_mode, vad_initialized, vad_sample_rate, provided_sample_rate,
            stream_sample_rate, stream_active, stream_count>>

\* the /ws connections of the server and the connection metric
VARIABLES
    connections,               \* keys of the `connections` dict
    endpoint_pc,               \* position of each websocket_endpoint call
    active_connections         \* server_metrics.active_connections

mcVars == <<connections, endpoint_pc, active_connections>>

vars == <<arVars, agVars, mrVars, aqVars, seVars, cnVars, ebVars, vdVars,
          stVars, wcVars, dbVars, tnVars, srVars, mcVars>>

\* ------------------------------------------------------- string helpers
SPACE == 0

RECURSIVE LStrip(_)
LStrip(s) == IF s # <<>> /\ Head(s) = SPACE THEN LStrip(Tail(s)) ELSE s

RECURSIVE RStrip(_)
RStrip(s) ==
    IF s # <<>> /\ s[Len(s)] = SPACE THEN RStrip(SubSeq(s, 1, Len(s) - 1))
    ELSE s

\* str.strip()
Strip(s) == RStrip(LStrip(s))

\* self._audio_transcript += f" {transcript}"; then .strip()
AccumulateReplace(acc, text) == Strip(<<SPACE>> \o text)
Accumulate(acc, text) == Strip(acc \o <<SPACE>> \o text)

\* the text the STT stream yields as its n-th final: the word n
FinalTexts(n) == { <<n>> }

\* ------------------------------------------------------------ EOU tasks
\* st: "new" (created, first step not run), "sleep" (in asyncio.sleep),
\*     "turn" (awaiting on_turn_end), "done" (task.done(): returned or
\*     cancelled; a finished task keeps no other state)
\* creq: cancel() was called and CancelledError is not yet delivered
\* saw: finals folded into audio_transcript while the task slept
\* left: the timer when the latest of those finals was folded in
\* det: probability the turn detection of the task came to (NotRun: no
\*      detection was run, LookupRaised: it raised into the coordinator)
\* vs: START_OF_SPEECH was handled while the task slept
NotRun == 0 - 3

NewTask == [st |-> "new", timer |-> 0, creq |-> FALSE, saw |-> {},
            left |-> 0, det |-> NotRun, vs |-> FALSE]

DoneTask == [NewTask EXCEPT !.st = "done"]

TaskDone(t) == eou_tasks[t].st = "done"

\* self._eou_detection_task and not self._eou_detection_task.done()
Pending == eou_detection_task # 0 /\ ~TaskDone(eou_detection_task)

\* task.cancel()
CancelTask(tasks, t) == [tasks EXCEPT ![t].creq = TRUE]

\* asyncio.create_task(self._eou_detection_with_delay())
SpawnEou(tasks) == Append(tasks, NewTask)

\* outcomes of one turn detection: the history lookup (or the detector)
\* raises into the coordinator, the detector fails inside
\* predict_end_of_turn, or the detector returns the probability p >= 0
LookupRaised == 0 - 1

DetectorFailed == 0 - 2

DetectorOutcomes == DetectorFailed .. MaxProb

\* predict_end_of_turn: its own failures are caught and 0.0 is returned
PredictEndOfTurn(o) == IF o = DetectorFailed THEN 0 ELSE o

\* endpointing delay chosen from the turn detector's outcome
\* p = -1 stands for the detector raising
EndpointingDelayStrict(p) ==
    IF p = -1 THEN MinDelay
    ELSE IF p <= Threshold THEN MaxDelay ELSE MinDelay
EndpointingDelay(p) ==
    IF p = -1 THEN MinDelay
    ELSE IF p < Threshold THEN MaxDelay ELSE MinDelay

ARInit ==
    /\ audio_transcript = <<>>
    /\ audio_interim_transcript = <<>>
    /\ last_final_transcript_time = FALSE
    /\ speaking = FALSE
    /\ closing = FALSE
    /\ sentinel_queued = FALSE
    /\ turn_detector \in BOOLEAN
    /\ eou_detection_task = 0
    /\ eou_tasks = <<>>
    /\ stt_pc = "recv"
    /\ stt_wait = 0
    /\ rl_pc = "recv"
    /\ rl_wait = 0
    /\ finals = <<>>
    /\ interims = 0
    /\ vad_events = 0
    /\ commits = <<>>

\* Message(role="assistant")
EmptyAssistant == [role |-> "assistant", content |-> <<>>, tool_calls |-> <<>>]

AGInit ==
    /\ conversation = <<>>
    /\ emitted = <<>>
    /\ ag_pc = "idle"
    /\ assistant_message = EmptyAssistant
    /\ accumulated_text = <<>>
    /\ final_text = <<>>
    /\ tool_calls_to_execute = <<>>
    /\ tool_outcomes = <<>>
    /\ tool_events = <<>>
    /\ tc_idx = 0
    /\ function_call_results = <<>>
    /\ chunks = 0
    /\ model_calls = 0
    /\ turns = 0

MRInit ==
    /\ messages = <<>>
    /\ mr_pc = "idle"
    /\ function_call_count = 0
    /\ tool_call_limit = 0

AQInit ==
    /\ audio_queue = <<>>
    /\ gen_done = FALSE
    /\ frames_pushed = 0
    /\ frames_yielded = <<>>

SEInit ==
    /\ is_audio_active = FALSE
    /\ audio_recognition_handler = 0
    /\ recognition_handlers = <<>>
    /\ audio_chunk_count = 0
    /\ ws_errors = 0

\* the connection has been accepted and not yet authenticated; the store
\* holds no session
Absent == 0 - 1
SessionIds == {1, 2}

CNInit ==
    /\ ws_pc = "accepted"
    /\ sessions = [s \in SessionIds |-> Absent]
    /\ now = 0
    /\ events = {}
    /\ ws_connected = FALSE
    /\ frames_received = <<>>

\* callbacks: coroutine functions that return or raise, and plain functions
\* that return, raise, or raise TypeError
CallbackKinds ==
    {"async_ok", "async_raises", "sync_ok", "sync_raises", "sync_type_error"}
Callbacks == 1 .. MaxSubscribers

EBInit ==
    /\ subscribers = <<>>
    /\ cb_kind = [c \in Callbacks |-> "unknown"]
    /\ eb_pc = "idle"
    /\ eb_snapshot = <<>>
    /\ eb_tasks = <<>>
    /\ invoked = [c \in Callbacks |-> 0]
    /\ eb_result = "none"
    /\ event_count = 0

VDInit ==
    /\ is_speaking = FALSE
    /\ vad_delivered = [sid \in SessionIds |-> <<>>]

STInit ==
    /\ stt_stream_task = 0
    /\ stt_tasks = <<>>
    /\ st_audio_queue = <<>>
    /\ st_closing = FALSE
    /\ st_frames = 0
    /\ stop_pc = "idle"

\* the connection_id values of the connection attempts
ConnectionIds == 1..MaxConnections

\* no connection has been attempted; ServerMetrics.active_connections = 0
MCInit ==
    /\ connections = {}
    /\ endpoint_pc = [c \in ConnectionIds |-> "none"]
    /\ active_connections = 0

\* no session yet; AudioBuffer.sample_rate defaults to 16000
SRInit ==
    /\ vad_mode = "none"
    /\ vad_initialized = FALSE
    /\ vad_sample_rate = 0
    /\ provided_sample_rate = 0
    /\ stream_sample_rate = 16000
    /\ stream_active = FALSE
    /\ stream_count = 0

\* a turn is run by the receive loop (client_text) or by an EOU task
\* (committed audio transcript)
TurnSources == {"text", "audio"}

TNInit ==
    /\ turn_pc = [src \in TurnSources |-> "idle"]
    /\ turn_no = [src \in TurnSources |-> 0]
    /\ turn_conversation = <<>>

\* the dashboard connection has been accepted
DBInit ==
    /\ db_pc = "accepted"
    /\ db_subscribed = FALSE
    /\ connection_active = FALSE
    /\ db_sent = <<>>

\* no message has been decoded yet
NoMessage ==
    [type |-> "unknown", session_id |-> <<>>, data |-> "none",
     extra |-> FALSE]

WCInit ==
    /\ wire_in = NoMessage
    /\ wire_out = NoMessage
    /\ wire_pc = "none"

Init ==
    /\ ARInit /\ AGInit /\ MRInit /\ AQInit /\ SEInit /\ CNInit /\ EBInit
    /\ VDInit /\ STInit /\ WCInit /\ DBInit /\ TNInit /\ SRInit
    /\ MCInit

\* ------------------------------------------------ _stt_streaming_task
SttLive == stt_pc # "done"

\* the None that stop() puts on the queue; frames are numbered from 1
SENTINEL == 0

\* push_audio_frame, called by the receive loop for an audio chunk
PushAudioFrame ==
    /\ rl_pc = "recv"
    /\ frames_pushed < MaxFrames
    /\ IF ~closing
       THEN /\ audio_queue' = Append(audio_queue, frames_pushed + 1)
            /\ frames_pushed' = frames_pushed + 1
       ELSE UNCHANGED <<audio_queue, frames_pushed>>
    /\ UNCHANGED <<gen_done, frames_yielded>>
    /\ UNCHANGED <<mcVars, srVars, tnVars, dbVars, wcVars, stVars, vdVars, ebVars, cnVars, arVars, agVars, mrVars, seVars>>

\* audio_generator, driven by the STT client's forwarding task while the
\* stream is alive: get one item, yield a frame or end at the sentinel
AudioGeneratorGet ==
    /\ SttLive
    /\ ~gen_done
    /\ audio_queue # <<>>
    /\ audio_queue' = Tail(audio_queue)
    /\ IF Head(audio_queue) = SENTINEL
       THEN /\ gen_done' = TRUE
            /\ UNCHANGED frames_yielded
       ELSE /\ frames_yielded' = Append(frames_yielded, Head(audio_queue))
            /\ UNCHANGED gen_done
    /\ UNCHANGED frames_pushed
    /\ UNCHANGED <<mcVars, srVars, tnVars, dbVars, wcVars, stVars, vdVars, ebVars, cnVars, arVars, agVars, mrVars, seVars>>

\* a final is yielded: accumulate, then await self._on_transcript(...)
HandleFinal(text) ==
    /\ stt_pc = "recv"
    /\ audio_transcript' = Accumulate(audio_transcript, text)
    /\ finals' = Append(finals, text)
    /\ audio_interim_transcript' = <<>>
    /\ last_final_transcript_time' = TRUE
    /\ eou_tasks' = [t \in DOMAIN eou_tasks |->
                       IF eou_tasks[t].st = "sleep" /\ ~eou_tasks[t].creq
                       THEN [eou_tasks[t] EXCEPT
                               !.saw = @ \cup {Len(finals) + 1},
                               !.left = eou_tasks[t].timer]
                       ELSE eou_tasks[t]]
    /\ stt_pc' = "send_final"
    /\ UNCHANGED <<mcVars, srVars, tnVars, dbVars, wcVars, stVars, vdVars, ebVars, cnVars, agVars, mrVars, aqVars, seVars>>
    /\ UNCHANGED <<speaking, closing, sentinel_queued, turn_detector,
                   eou_detection_task, stt_wait, rl_pc, rl_wait, interims,
                   vad_events, commits>>

SttFinal ==
    /\ Len(finals) < MaxFinals
    /\ \E text \in FinalTexts(Len(finals) + 1) : HandleFinal(text)

\* _run_eou_detection up to its first suspension, entered by `who`
\* ("stt" or "rl"); resume is the pc the caller continues at
RunEouDetection(who, resume) ==
    IF Pending
    THEN /\ eou_tasks' = CancelTask(eou_tasks, eou_detection_task)
         /\ UNCHANGED eou_detection_task
         /\ IF who = "stt"
            THEN /\ stt_pc' = "eou_wait"
                 /\ stt_wait' = eou_detection_task
                 /\ UNCHANGED <<rl_pc, rl_wait>>
            ELSE /\ rl_pc' = "eou_wait"
                 /\ rl_wait' = eou_detection_task
                 /\ UNCHANGED <<stt_pc, stt_wait>>
    ELSE /\ eou_tasks' = SpawnEou(eou_tasks)
         /\ eou_detection_task' = Len(eou_tasks) + 1
         /\ IF who = "stt"
            THEN /\ stt_pc' = resume
                 /\ UNCHANGED <<stt_wait, rl_pc, rl_wait>>
            ELSE /\ rl_pc' = resume
                 /\ UNCHANGED <<rl_wait, stt_pc, stt_wait>>

\* on_transcript returned for a final: re-trigger EOU detection
SttFinalSent ==
    /\ stt_pc = "send_final"
    /\ IF audio_transcript # <<>>
       THEN RunEouDetection("stt", "recv")
       ELSE /\ stt_pc' = "recv"
            /\ UNCHANGED <<eou_tasks, eou_detection_task, stt_wait, rl_pc,
                           rl_wait>>
    /\ UNCHANGED <<mcVars, srVars, tnVars, dbVars, wcVars, stVars, vdVars, ebVars, cnVars, agVars, mrVars, aqVars, seVars>>
    /\ UNCHANGED <<last_final_transcript_time, audio_transcript, audio_interim_transcript, speaking,
                   closing, sentinel_queued, turn_detector, finals, interims,
                   vad_events, commits>>

\* the awaited (cancelled) EOU task finished: spawn the new one
SttEouResume ==
    /\ stt_pc = "eou_wait"
    /\ TaskDone(stt_wait)
    /\ eou_tasks' = SpawnEou(eou_tasks)
    /\ eou_detection_task' = Len(eou_tasks) + 1
    /\ stt_pc' = "recv"
    /\ stt_wait' = 0
    /\ UNCHANGED <<mcVars, srVars, tnVars, dbVars, wcVars, stVars, vdVars, ebVars, cnVars, agVars, mrVars, aqVars, seVars>>
    /\ UNCHANGED <<last_final_transcript_time, audio_transcript, audio_interim_transcript, speaking,
                   closing, sentinel_queued, turn_detector, rl_pc, rl_wait,
                   finals, interims, vad_events, commits>>

\* an interim is yielded: replace the interim, await on_transcript
SttInterim ==
    /\ stt_pc = "recv"
    /\ interims < MaxInterims
    /\ audio_interim_transcript' = <<Len(finals) + 1>>
    /\ interims' = interims + 1
    /\ stt_pc' = "send_interim"
    /\ UNCHANGED <<mcVars, srVars, tnVars, dbVars, wcVars, stVars, vdVars, ebVars, cnVars, agVars, mrVars, aqVars, seVars>>
    /\ UNCHANGED <<last_final_transcript_time, audio_transcript, speaking,
                   closing, sentinel_queued,
                   turn_detector, eou_detection_task, eou_tasks, stt_wait,
                   rl_pc, rl_wait, finals, vad_events, commits>>

SttInterimSent ==
    /\ stt_pc = "send_interim"
    /\ stt_pc' = "recv"
    /\ UNCHANGED <<mcVars, srVars, tnVars, dbVars, wcVars, stVars, vdVars, ebVars, cnVars, agVars, mrVars, aqVars, seVars>>
    /\ UNCHANGED <<last_final_transcript_time, audio_transcript, audio_interim_transcript, speaking,
                   closing, sentinel_queued, turn_detector,
                   eou_detection_task, eou_tasks, stt_wait, rl_pc, rl_wait,
                   finals, interims, vad_events, commits>>

\* the audio generator read the sentinel and the provider's stream ended
SttStreamEnd ==
    /\ stt_pc = "recv"
    /\ gen_done
    /\ stt_pc' = "done"
    /\ UNCHANGED <<mcVars, srVars, tnVars, dbVars, wcVars, stVars, vdVars, ebVars, cnVars, agVars, mrVars, aqVars, seVars>>
    /\ UNCHANGED <<last_final_transcript_time, audio_transcript, audio_interim_transcript, speaking,
                   closing, sentinel_queued, turn_detector,
                   eou_detection_task, eou_tasks, stt_wait, rl_pc, rl_wait,
                   finals, interims, vad_events, commits>>

\* ------------------------------------------- _eou_detection_with_delay
\* first step of the task: run the turn detector, pick the delay, sleep
EouStartWith(t, o) ==
    /\ eou_tasks[t].st = "new"
    /\ ~eou_tasks[t].creq
    /\ LET ran == turn_detector /\ audio_transcript # <<>>
           d == IF ran THEN EndpointingDelay(PredictEndOfTurn(o))
                ELSE MinDelay
       IN eou_tasks' = [eou_tasks EXCEPT ![t].st = "sleep",
                                         ![t].timer = d,
                                         ![t].det = IF ran
                                                    THEN PredictEndOfTurn(o)
                                                    ELSE NotRun]
    /\ UNCHANGED <<mcVars, srVars, tnVars, dbVars, wcVars, stVars, vdVars, ebVars, cnVars, agVars, mrVars, aqVars, seVars>>
    /\ UNCHANGED <<last_final_transcript_time, audio_transcript, audio_interim_transcript, speaking,
                   closing, sentinel_queued, turn_detector,
                   eou_detection_task, stt_pc, stt_wait, rl_pc, rl_wait,
                   finals, interims, vad_events, commits>>

EouStart(t) == \E o \in DetectorOutcomes : EouStartWith(t, o)

\* the sleep returned: commit step up to `await self._on_turn_end(...)`
EouWakeKeepsTranscript(t) ==
    /\ eou_tasks[t].st = "sleep"
    /\ eou_tasks[t].timer = 0
    /\ ~eou_tasks[t].creq
    /\ LET transcript == audio_transcript IN
         IF transcript # <<>>
         THEN /\ audio_transcript' = audio_transcript
              /\ audio_interim_transcript' = <<>>
              /\ last_final_transcript_time' = FALSE
              /\ commits' = Append(commits,
                     [text |-> transcript, saw |-> eou_tasks[t].saw,
                      left |-> eou_tasks[t].left,
                      vs |-> eou_tasks[t].vs])
              /\ eou_tasks' = [eou_tasks EXCEPT
                                 ![t] = [NewTask EXCEPT !.st = "turn"]]
         ELSE /\ eou_tasks' = [eou_tasks EXCEPT ![t] = DoneTask]
              /\ UNCHANGED <<last_final_transcript_time, audio_transcript, audio_interim_transcript,
                             commits>>
    /\ UNCHANGED <<mcVars, srVars, tnVars, dbVars, wcVars, stVars, vdVars, ebVars, cnVars, agVars, mrVars, aqVars, seVars>>
    /\ UNCHANGED <<speaking, closing, sentinel_queued, turn_detector,
                   eou_detection_task, stt_pc, stt_wait, rl_pc, rl_wait,
                   finals, interims, vad_events>>
EouWake(t) ==
    /\ eou_tasks[t].st = "sleep"
    /\ eou_tasks[t].timer = 0
    /\ ~eou_tasks[t].creq
    /\ LET transcript == audio_transcript IN
         IF transcript # <<>>
         THEN /\ audio_transcript' = <<>>
              /\ audio_interim_transcript' = <<>>
              /\ last_final_transcript_time' = FALSE
              /\ commits' = Append(commits,
                     [text |-> transcript, saw |-> eou_tasks[t].saw,
                      left |-> eou_tasks[t].left,
                      vs |-> eou_tasks[t].vs])
              /\ eou_tasks' = [eou_tasks EXCEPT
                                 ![t] = [NewTask EXCEPT !.st = "turn"]]
         ELSE /\ eou_tasks' = [eou_tasks EXCEPT ![t] = DoneTask]
              /\ UNCHANGED <<last_final_transcript_time, audio_transcript, audio_interim_transcript,
                             commits>>
    /\ UNCHANGED <<mcVars, srVars, tnVars, dbVars, wcVars, stVars, vdVars, ebVars, cnVars, agVars, mrVars, aqVars, seVars>>
    /\ UNCHANGED <<speaking, closing, sentinel_queued, turn_detector,
                   eou_detection_task, stt_pc, stt_wait, rl_pc, rl_wait,
                   finals, interims, vad_events>>

\* on_turn_end returned
EouTurnDone(t) ==
    /\ eou_tasks[t].st = "turn"
    /\ ~eou_tasks[t].creq
    /\ eou_tasks' = [eou_tasks EXCEPT ![t] = DoneTask]
    /\ UNCHANGED <<mcVars, srVars, tnVars, dbVars, wcVars, stVars, vdVars, ebVars, cnVars, agVars, mrVars, aqVars, seVars>>
    /\ UNCHANGED <<last_final_transcript_time, audio_transcript, audio_interim_transcript, speaking,
                   closing, sentinel_queued, turn_detector,
                   eou_detection_task, stt_pc, stt_wait, rl_pc, rl_wait,
                   finals, interims, vad_events, commits>>

\* CancelledError is delivered at the task's await (or before its first step)
EouCancelled(t) ==
    /\ eou_tasks[t].creq
    /\ ~TaskDone(t)
    /\ eou_tasks' = [eou_tasks EXCEPT ![t] = DoneTask]
    /\ UNCHANGED <<mcVars, srVars, tnVars, dbVars, wcVars, stVars, vdVars, ebVars, cnVars, agVars, mrVars, aqVars, seVars>>
    /\ UNCHANGED <<last_final_transcript_time, audio_transcript, audio_interim_transcript, speaking,
                   closing, sentinel_queued, turn_detector,
                   eou_detection_task, stt_pc, stt_wait, rl_pc, rl_wait,
                   finals, interims, vad_events, commits>>

\* one unit of time passes for every sleeping task
Tick ==
    /\ \E t \in DOMAIN eou_tasks :
         eou_tasks[t].st = "sleep" /\ eou_tasks[t].timer > 0
    /\ eou_tasks' = [t \in DOMAIN eou_tasks |->
                       IF eou_tasks[t].st = "sleep" /\ eou_tasks[t].timer > 0
                       THEN [eou_tasks[t] EXCEPT !.timer = @ - 1]
                       ELSE eou_tasks[t]]
    /\ UNCHANGED <<mcVars, srVars, tnVars, dbVars, wcVars, stVars, vdVars, ebVars, cnVars, agVars, mrVars, aqVars, seVars>>
    /\ UNCHANGED <<last_final_transcript_time, audio_transcript, audio_interim_transcript, speaking,
                   closing, sentinel_queued, turn_detector,
                   eou_detection_task, stt_pc, stt_wait, rl_pc, rl_wait,
                   finals, interims, vad_events, commits>>

\* ------------------------------------------------------ receive loop
\* handle_vad_event("START_OF_SPEECH")
HandleVadStart ==
    /\ rl_pc = "recv"
    /\ vad_events' = vad_events + 1
    /\ speaking' = TRUE
    /\ LET marked == [t \in DOMAIN eou_tasks |->
                         IF eou_tasks[t].st = "sleep"
                         THEN [eou_tasks[t] EXCEPT !.vs = TRUE]
                         ELSE eou_tasks[t]]
       IN eou_tasks' = IF Pending
                       THEN CancelTask(marked, eou_detection_task)
                       ELSE marked
    /\ UNCHANGED <<mcVars, srVars, tnVars, dbVars, wcVars, stVars, vdVars, ebVars, cnVars, agVars, mrVars, aqVars, seVars>>
    /\ UNCHANGED <<last_final_transcript_time, audio_transcript, audio_interim_transcript, closing,
                   sentinel_queued, turn_detector, eou_detection_task,
                   stt_pc, stt_wait, rl_pc, rl_wait, finals, interims,
                   commits>>

\* handle_vad_event("END_OF_SPEECH")
HandleVadEnd ==
    /\ rl_pc = "recv"
    /\ vad_events' = vad_events + 1
    /\ speaking' = FALSE
    /\ IF audio_transcript # <<>>
       THEN RunEouDetection("rl", "recv")
       ELSE UNCHANGED <<eou_tasks, eou_detection_task, stt_pc, stt_wait,
                        rl_pc, rl_wait>>
    /\ UNCHANGED <<mcVars, srVars, tnVars, dbVars, wcVars, stVars, vdVars, ebVars, cnVars, agVars, mrVars, aqVars, seVars>>
    /\ UNCHANGED <<last_final_transcript_time, audio_transcript, audio_interim_transcript, closing,
                   sentinel_queued, turn_detector, finals, interims, commits>>

VadStart == vad_events < MaxVad /\ HandleVadStart

VadEnd == vad_events < MaxVad /\ HandleVadEnd

RlEouResume ==
    /\ rl_pc = "eou_wait"
    /\ TaskDone(rl_wait)
    /\ eou_tasks' = SpawnEou(eou_tasks)
    /\ eou_detection_task' = Len(eou_tasks) + 1
    /\ rl_pc' = "recv"
    /\ rl_wait' = 0
    /\ UNCHANGED <<mcVars, srVars, tnVars, dbVars, wcVars, stVars, vdVars, ebVars, cnVars, agVars, mrVars, aqVars, seVars>>
    /\ UNCHANGED <<last_final_transcript_time, audio_transcript, audio_interim_transcript, speaking,
                   closing, sentinel_queued, turn_detector, stt_pc, stt_wait,
                   finals, interims, vad_events, commits>>

\* stop(): set _closing, put the sentinel, wait_for the STT task
Stop ==
    /\ rl_pc = "recv"
    /\ closing' = TRUE
    /\ sentinel_queued' = TRUE
    /\ audio_queue' = Append(audio_queue, SENTINEL)
    /\ rl_pc' = "stop_wait_stt"
    /\ UNCHANGED <<mcVars, srVars, tnVars, dbVars, wcVars, stVars, vdVars, ebVars, cnVars, agVars, mrVars, seVars>>
    /\ UNCHANGED <<gen_done, frames_pushed, frames_yielded>>
    /\ UNCHANGED <<last_final_transcript_time, audio_transcript, audio_interim_transcript, speaking,
                   turn_detector, eou_detection_task, eou_tasks, stt_pc,
                   stt_wait, rl_wait, finals, interims, vad_events, commits>>

\* wait_for timed out: the STT task is cancelled.  A task suspended in
\* _run_eou_detection's `await self._eou_detection_task` swallows the
\* CancelledError (except asyncio.CancelledError: pass) and runs on.
StopTimeout ==
    /\ rl_pc = "stop_wait_stt"
    /\ stt_pc \in {"recv", "send_final", "send_interim"}
    /\ stt_pc' = "done"
    /\ UNCHANGED <<mcVars, srVars, tnVars, dbVars, wcVars, stVars, vdVars, ebVars, cnVars, agVars, mrVars, aqVars, seVars>>
    /\ UNCHANGED <<last_final_transcript_time, audio_transcript, audio_interim_transcript, speaking,
                   closing, sentinel_queued, turn_detector,
                   eou_detection_task, eou_tasks, stt_wait, rl_pc, rl_wait,
                   finals, interims, vad_events, commits>>

\* the STT task is finished: cancel the referenced EOU task, await it
StopSttDone ==
    /\ rl_pc = "stop_wait_stt"
    /\ ~SttLive
    /\ IF Pending
       THEN /\ eou_tasks' = CancelTask(eou_tasks, eou_detection_task)
            /\ rl_pc' = "stop_wait_eou"
            /\ rl_wait' = eou_detection_task
       ELSE /\ rl_pc' = "stopped"
            /\ UNCHANGED <<eou_tasks, rl_wait>>
    /\ UNCHANGED <<mcVars, srVars, tnVars, dbVars, wcVars, stVars, vdVars, ebVars, cnVars, agVars, mrVars, aqVars, seVars>>
    /\ UNCHANGED <<last_final_transcript_time, audio_transcript, audio_interim_transcript, speaking,
                   closing, sentinel_queued, turn_detector,
                   eou_detection_task, stt_pc, stt_wait, finals, interims,
                   vad_events, commits>>

StopEouDone ==
    /\ rl_pc = "stop_wait_eou"
    /\ TaskDone(rl_wait)
    /\ rl_pc' = "stopped"
    /\ rl_wait' = 0
    /\ UNCHANGED <<mcVars, srVars, tnVars, dbVars, wcVars, stVars, vdVars, ebVars, cnVars, agVars, mrVars, aqVars, seVars>>
    /\ UNCHANGED <<last_final_transcript_time, audio_transcript, audio_interim_transcript, speaking,
                   closing, sentinel_queued, turn_detector,
                   eou_detection_task, eou_tasks, stt_pc, stt_wait, finals,
                   interims, vad_events, commits>>

Next ==
    \/ SttFinal
    \/ SttFinalSent
    \/ SttEouResume
    \/ SttInterim
    \/ SttInterimSent
    \/ SttStreamEnd
    \/ AudioGeneratorGet
    \/ \E t \in DOMAIN eou_tasks : EouStart(t)
    \/ \E t \in DOMAIN eou_tasks : EouWake(t)
    \/ \E t \in DOMAIN eou_tasks : EouTurnDone(t)
    \/ \E t \in DOMAIN eou_tasks : EouCancelled(t)
    \/ Tick
    \/ VadStart
    \/ VadEnd
    \/ RlEouResume
    \/ Stop
    \/ StopTimeout
    \/ StopSttDone
    \/ StopEouDone

Spec == Init /\ [][Next]_vars

\* ----------------------------------- AgentHandler.process_text_async
\* text of one streamed chunk: none, or the token 1
ChunkTexts == { <<>>, <<1>> }

\* tool calls carried by one streamed chunk, the model having asked for n
\* calls before: none, or one call of the registered tool "echo" whose
\* arguments string is valid JSON (args_ok) or not
ChunkCalls(n) ==
    { <<>> } \cup
    { <<[id |-> n + 1, name |-> "echo", args_ok |-> a]>> : a \in BOOLEAN }

UserMessage == [role |-> "user", content |-> <<9>>, tool_calls |-> <<>>]

\* Message(role="tool", content=c, tool_calls=[{tool_name, content}])
ToolMessage(name, content) ==
    [role |-> "tool", content |-> content,
     tool_calls |-> <<[tool_name |-> name, content |-> content]>>]

\* normalised result of call c, and its "Error: ..." content
ResultContent(c) == <<10 + c.id>>
ErrorContent(c) == <<20 + c.id>>

PartialMsg(text) ==
    [type |-> "server_partial", text |-> text, id |-> 0, status |-> ""]
ToolCallMsg(c) ==
    [type |-> "server_tool_call", text |-> <<>>, id |-> c.id,
     status |-> "calling"]
ToolResultMsg(c, status) ==
    [type |-> "server_tool_result", text |-> <<>>, id |-> c.id,
     status |-> status]
TextMsg(text) ==
    [type |-> "server_text", text |-> text, id |-> 0, status |-> ""]
\* ServerErrorMessage sent by handle_text_message for a raised AgentError
ErrorMsg ==
    [type |-> "server_error", text |-> <<>>, id |-> 0,
     status |-> "TEXT_PROCESSING_ERROR"]

\* if accumulated_text: assistant_message.content = accumulated_text;
\* session.add_message(assistant_message)
FinalConversationAlways(conv, msg, text) ==
    Append(conv, [msg EXCEPT !.content = text])
FinalConversation(conv, msg, text) ==
    IF text # <<>> THEN Append(conv, [msg EXCEPT !.content = text]) ELSE conv

\* the "Final message" block: append and yield ServerTextMessage
Finalize(msg, text) ==
    /\ conversation' = FinalConversation(conversation, msg, text)
    /\ emitted' = Append(emitted, TextMsg(text))
    /\ ag_pc' = "done"

\* for result in function_call_results: session.add_message(result)
AddToolResultsCompleted(conv, results) ==
    conv \o SelectSeq(results, LAMBDA m : m.content[1] < 20)
AddToolResults(conv, results) == conv \o results

\* a turn starts: the user message is appended, the first stream is opened
AgStart ==
    /\ ag_pc \in {"idle", "done", "failed"}
    /\ turns < MaxTurns
    /\ turns' = turns + 1
    /\ conversation' = Append(conversation, UserMessage)
    /\ emitted' = <<>>
    /\ assistant_message' = EmptyAssistant
    /\ accumulated_text' = <<>>
    /\ final_text' = <<>>
    /\ tool_calls_to_execute' = <<>>
    /\ tool_outcomes' = <<>>
    /\ tool_events' = <<>>
    /\ tc_idx' = 0
    /\ function_call_results' = <<>>
    /\ chunks' = 0
    /\ model_calls' = 0
    /\ ag_pc' = "stream1"
    /\ UNCHANGED <<mcVars, srVars, tnVars, dbVars, wcVars, stVars, vdVars, ebVars, cnVars, arVars, mrVars, aqVars, seVars>>

\* one chunk of the first stream
Stream1Chunk ==
    /\ ag_pc = "stream1"
    /\ chunks < MaxChunks
    /\ chunks' = chunks + 1
    /\ \E text \in ChunkTexts, calls \in ChunkCalls(model_calls) :
        /\ IF text # <<>>
           THEN /\ accumulated_text' = accumulated_text \o text
                /\ emitted' = Append(emitted, PartialMsg(text))
           ELSE UNCHANGED <<accumulated_text, emitted>>
        /\ tool_calls_to_execute' = tool_calls_to_execute \o calls
        /\ model_calls' = model_calls + Len(calls)
    /\ UNCHANGED <<conversation, ag_pc, assistant_message, final_text, tc_idx,
                   function_call_results, turns>>
    /\ UNCHANGED <<mcVars, srVars, tnVars, dbVars, wcVars, stVars, vdVars, ebVars, cnVars, arVars, mrVars, aqVars, seVars, tool_outcomes, tool_events>>

\* the first stream raised: except Exception -> raise AgentError, which
\* handle_text_message answers with a server_error; no server_text is sent
Stream1Raise ==
    /\ ag_pc = "stream1"
    /\ ag_pc' = "failed"
    /\ emitted' = Append(emitted, ErrorMsg)
    /\ UNCHANGED <<conversation, assistant_message,
                   accumulated_text, final_text, tool_calls_to_execute,
                   tc_idx, function_call_results, chunks, model_calls, turns>>
    /\ UNCHANGED <<mcVars, srVars, tnVars, dbVars, wcVars, stVars, vdVars, ebVars, cnVars, arVars, mrVars, aqVars, seVars, tool_outcomes, tool_events>>

\* the first stream ended
Stream1End ==
    /\ ag_pc = "stream1"
    /\ IF tool_calls_to_execute # <<>>
       THEN /\ ag_pc' = "tools"
            /\ tc_idx' = 1
            /\ UNCHANGED <<conversation, emitted>>
       ELSE /\ Finalize(assistant_message, accumulated_text)
            /\ UNCHANGED tc_idx
    /\ UNCHANGED <<assistant_message, accumulated_text, final_text,
                   tool_calls_to_execute, function_call_results, chunks,
                   model_calls, turns>>
    /\ UNCHANGED <<mcVars, srVars, tnVars, dbVars, wcVars, stVars, vdVars, ebVars, cnVars, arVars, mrVars, aqVars, seVars, tool_outcomes, tool_events>>

\* the result of call c is yielded and recorded; after the last call the
\* results are added to the session and the second stream is opened
RecordToolResult(c, status, content) ==
    LET results == Append(function_call_results, ToolMessage(c.name, content))
    IN
    /\ emitted' = Append(emitted, ToolResultMsg(c, status))
    /\ IF tc_idx = Len(tool_calls_to_execute)
       THEN /\ conversation' = AddToolResults(conversation, results)
            /\ function_call_results' = <<>>
            /\ assistant_message' = EmptyAssistant
            /\ final_text' = <<>>
            /\ chunks' = 0
            /\ ag_pc' = "stream2"
            /\ UNCHANGED tc_idx
       ELSE /\ function_call_results' = results
            /\ tc_idx' = tc_idx + 1
            /\ ag_pc' = "tools"
            /\ UNCHANGED <<conversation, assistant_message, final_text,
                           chunks>>
    /\ UNCHANGED <<accumulated_text, tool_calls_to_execute, model_calls,
                   turns>>

\* event_bus.publish(event_type, data={..., "tool_call_id": id})
ToolEvent(event_type, c) == [event_type |-> event_type, id |-> c.id]

\* the events published once the executor has answered: tool_call_complete
\* after a result; tool_call_error in `except Exception` of the call after
\* an exception; after a timeout tool_call_error in `except TimeoutError`,
\* then `raise TimeoutError`, which `except Exception` of the call catches
\* and answers with a second tool_call_error
PublishedAfterExec(outcome, c) ==
    IF outcome = "returned" THEN <<ToolEvent("tool_call_complete", c)>>
    ELSE IF outcome = "raised" THEN <<ToolEvent("tool_call_error", c)>>
    ELSE <<ToolEvent("tool_call_error", c), ToolEvent("tool_call_error", c)>>

\* next tool call: json.loads of the arguments, then ServerToolCallMessage
\* and tool_call_start; a parse failure lands in `except Exception` of the
\* call, which publishes tool_call_error;
\* a parse failure lands in `except Exception` of the call
ToolBegin ==
    /\ ag_pc = "tools"
    /\ LET c == tool_calls_to_execute[tc_idx] IN
         IF c.args_ok
         THEN /\ emitted' = Append(emitted, ToolCallMsg(c))
              /\ tool_events' = Append(tool_events,
                                       ToolEvent("tool_call_start", c))
              /\ ag_pc' = "exec"
              /\ UNCHANGED <<conversation, assistant_message,
                             accumulated_text, final_text,
                             tool_calls_to_execute, tc_idx,
                             function_call_results, chunks, model_calls,
                             turns, tool_outcomes>>
         ELSE /\ RecordToolResult(c, "failed", ErrorContent(c))
              /\ tool_outcomes' = Append(tool_outcomes, "parse_error")
              /\ tool_events' = Append(tool_events,
                                       ToolEvent("tool_call_error", c))
    /\ UNCHANGED <<mcVars, srVars, tnVars, dbVars, wcVars, stVars, vdVars, ebVars, cnVars, arVars, mrVars, aqVars, seVars>>

\* the executor returned, raised, or wait_for timed out after 30 s
ToolExec ==
    /\ ag_pc = "exec"
    /\ LET c == tool_calls_to_execute[tc_idx] IN
         \E outcome \in {"returned", "raised", "timeout"} :
            /\ IF outcome = "returned"
               THEN RecordToolResult(c, "completed", ResultContent(c))
               ELSE RecordToolResult(c, "failed", ErrorContent(c))
            /\ tool_outcomes' = Append(tool_outcomes, outcome)
            /\ tool_events' = tool_events \o PublishedAfterExec(outcome, c)
    /\ UNCHANGED <<mcVars, srVars, tnVars, dbVars, wcVars, stVars, vdVars, ebVars, cnVars, arVars, mrVars, aqVars, seVars>>

\* one chunk of the second stream: its tool calls are not collected
Stream2Chunk ==
    /\ ag_pc = "stream2"
    /\ chunks < MaxChunks
    /\ chunks' = chunks + 1
    /\ \E text \in ChunkTexts, calls \in ChunkCalls(model_calls) :
        /\ IF text # <<>>
           THEN /\ final_text' = final_text \o text
                /\ emitted' = Append(emitted, PartialMsg(text))
           ELSE UNCHANGED <<final_text, emitted>>
        /\ model_calls' = model_calls + Len(calls)
    /\ UNCHANGED <<conversation, ag_pc, assistant_message, accumulated_text,
                   tool_calls_to_execute, tc_idx, function_call_results,
                   turns>>
    /\ UNCHANGED <<mcVars, srVars, tnVars, dbVars, wcVars, stVars, vdVars, ebVars, cnVars, arVars, mrVars, aqVars, seVars, tool_outcomes, tool_events>>

\* the second stream ended: accumulated_text = final_text, final message
Stream2End ==
    /\ ag_pc = "stream2"
    /\ accumulated_text' = final_text
    /\ Finalize(assistant_message, final_text)
    /\ UNCHANGED <<assistant_message, final_text, tool_calls_to_execute,
                   tc_idx, function_call_results, chunks, model_calls, turns>>
    /\ UNCHANGED <<mcVars, srVars, tnVars, dbVars, wcVars, stVars, vdVars, ebVars, cnVars, arVars, mrVars, aqVars, seVars, tool_outcomes, tool_events>>

\* the second stream raised: "Error handling tool calls" is logged and the
\* text of the first stream is sent as the final message
Stream2Raise ==
    /\ ag_pc = "stream2"
    /\ Finalize(assistant_message, accumulated_text)
    /\ UNCHANGED <<assistant_message, accumulated_text, final_text,
                   tool_calls_to_execute, tc_idx, function_call_results,
                   chunks, model_calls, turns>>
    /\ UNCHANGED <<mcVars, srVars, tnVars, dbVars, wcVars, stVars, vdVars, ebVars, cnVars, arVars, mrVars, aqVars, seVars, tool_outcomes, tool_events>>

AgentNext ==
    \/ AgStart
    \/ Stream1Chunk
    \/ Stream1Raise
    \/ Stream1End
    \/ ToolBegin
    \/ ToolExec
    \/ Stream2Chunk
    \/ Stream2End
    \/ Stream2Raise

SpecAgent == Init /\ [][AgentNext]_vars

\* ------------------------------------------------ the VAD handler
\* SileroVADHandler.process_audio_frame on a frame of speech probability
\* p: the new _is_speaking and the event
ProcessAudioFrame(spk, p) ==
    LET is_speech == p >= Threshold IN
      IF is_speech /\ ~spk
      THEN [is_speaking |-> TRUE, event |-> "START_OF_SPEECH"]
      ELSE IF ~is_speech /\ spk
      THEN [is_speaking |-> FALSE, event |-> "END_OF_SPEECH"]
      ELSE [is_speaking |-> spk, event |-> "CONTINUING"]

\* session 1 took the handler in start_audio_stream (_vad_initialized)
VadInitialized == Len(recognition_handlers) > 0

\* ------------------------------------- the session and its history
\* Session.reset: conversation_history.clear(), is_audio_active = False,
\* vad_handler.reset() if the session has taken the handler,
\* clear_user_turn() on the coordinator if there is one
ResetTruncate ==
    /\ conversation' = SubSeq(conversation, 1, Len(conversation) - 1)
    /\ is_audio_active' = FALSE
    /\ IF audio_recognition_handler # 0
       THEN /\ audio_transcript' = <<>>
            /\ audio_interim_transcript' = <<>>
            /\ last_final_transcript_time' = FALSE
       ELSE UNCHANGED <<last_final_transcript_time, audio_transcript, audio_interim_transcript>>
    /\ UNCHANGED <<speaking, closing, sentinel_queued, turn_detector,
                   eou_detection_task, eou_tasks, stt_pc, stt_wait, rl_pc,
                   rl_wait, finals, interims, vad_events, commits>>
    /\ UNCHANGED <<emitted, ag_pc, assistant_message, accumulated_text,
                   final_text, tool_calls_to_execute, tc_idx, tool_outcomes, tool_events,
                   function_call_results, chunks, model_calls, turns>>
    /\ UNCHANGED <<audio_recognition_handler, recognition_handlers,
                   audio_chunk_count, ws_errors>>
    /\ is_speaking' = (IF VadInitialized THEN FALSE ELSE is_speaking)
    /\ UNCHANGED <<mcVars, srVars, tnVars, dbVars, wcVars, stVars, vad_delivered, ebVars, cnVars, mrVars, aqVars>>
Reset ==
    /\ conversation' = <<>>
    /\ is_audio_active' = FALSE
    /\ IF audio_recognition_handler # 0
       THEN /\ audio_transcript' = <<>>
            /\ audio_interim_transcript' = <<>>
            /\ last_final_transcript_time' = FALSE
       ELSE UNCHANGED <<last_final_transcript_time, audio_transcript, audio_interim_transcript>>
    /\ UNCHANGED <<speaking, closing, sentinel_queued, turn_detector,
                   eou_detection_task, eou_tasks, stt_pc, stt_wait, rl_pc,
                   rl_wait, finals, interims, vad_events, commits>>
    /\ UNCHANGED <<emitted, ag_pc, assistant_message, accumulated_text,
                   final_text, tool_calls_to_execute, tc_idx, tool_outcomes, tool_events,
                   function_call_results, chunks, model_calls, turns>>
    /\ UNCHANGED <<audio_recognition_handler, recognition_handlers,
                   audio_chunk_count, ws_errors>>
    /\ is_speaking' = (IF VadInitialized THEN FALSE ELSE is_speaking)
    /\ UNCHANGED <<mcVars, srVars, tnVars, dbVars, wcVars, stVars, vad_delivered, ebVars, cnVars, mrVars, aqVars>>

SessionNext ==
    \/ AgentNext
    \/ Reset

SpecSession == Init /\ [][SessionNext]_vars

\* ------------------------------------------------------ Model.response
\* a tool call of a provider response: the tool is registered in
\* _functions ("echo") or not ("nope"); raises: the entrypoint raises
ResponseCall ==
    { [name |-> "echo", raises |-> r] : r \in BOOLEAN }
        \cup { [name |-> "nope", raises |-> FALSE] }

\* tool_calls of one provider response: at most two calls
ResponseCalls ==
    { <<>> } \cup { <<c>> : c \in ResponseCall }
        \cup { <<c, d>> : c \in ResponseCall, d \in ResponseCall }

\* rounds of the while loop run so far
Rounds == Cardinality({ i \in DOMAIN messages : messages[i].role = "assistant" })

\* the loop over assistant_message.tool_calls: one result Message per call
\* whose name is in _functions
RECURSIVE ExecuteCalls(_)
ExecuteCalls(calls) ==
    IF calls = <<>> THEN <<>>
    ELSE LET c == Head(calls) IN
         (IF c.name = "echo"
          THEN <<ToolMessage(c.name, IF c.raises THEN <<21>> ELSE <<11>>)>>
          ELSE <<>>) \o ExecuteCalls(Tail(calls))

\* format_function_call_results: the results are combined into one Message;
\* a Message has neither tool_name nor name, so every entry is "unknown"
FormatFunctionCallResults(msgs, results) ==
    IF results # <<>>
    THEN Append(msgs,
            [role |-> "tool",
             content |-> [i \in DOMAIN results |-> results[i].content],
             tool_calls |-> [i \in DOMAIN results |->
                               [tool_name |-> "unknown",
                                content |-> results[i].content]]])
    ELSE msgs

\* response(messages, tool_call_limit=limit) is called
MRStart ==
    /\ mr_pc = "idle"
    /\ \E limit \in 0 .. 2 : tool_call_limit' = limit
    /\ messages' = <<UserMessage>>
    /\ function_call_count' = 0
    /\ mr_pc' = "loop"
    /\ UNCHANGED <<mcVars, srVars, tnVars, dbVars, wcVars, stVars, vdVars, ebVars, cnVars, arVars, agVars, aqVars, seVars>>

\* one iteration of `while True`
MRRound ==
    /\ mr_pc = "loop"
    /\ \E content \in ChunkTexts, calls \in ResponseCalls :
        /\ calls # <<>> => Rounds < MaxRounds
        /\ LET am == [role |-> "assistant", content |-> content,
                      tool_calls |-> calls]
               results == ExecuteCalls(calls)
               count == function_call_count + Len(results)
           IN IF calls # <<>>
              THEN /\ messages' =
                        FormatFunctionCallResults(Append(messages, am),
                                                  results)
                   /\ function_call_count' = count
                   /\ mr_pc' = IF tool_call_limit # 0
                                   /\ count >= tool_call_limit
                               THEN "done" ELSE "loop"
              ELSE /\ messages' = Append(messages, am)
                   /\ mr_pc' = "done"
                   /\ UNCHANGED function_call_count
    /\ UNCHANGED tool_call_limit
    /\ UNCHANGED <<mcVars, srVars, tnVars, dbVars, wcVars, stVars, vdVars, ebVars, cnVars, arVars, agVars, aqVars, seVars>>

ModelResponseNext ==
    \/ MRStart
    \/ MRRound

SpecModelResponse == Init /\ [][ModelResponseNext]_vars

\* --------------------------------------- the interrupted-speaker run
\* START_OF_SPEECH, final "hello", then within min_delay START_OF_SPEECH
\* and final " world", then END_OF_SPEECH; the word 1 is "hello", the
\* word 2 is "world"
I_Start1 == vad_events = 0 /\ Len(finals) = 0 /\ HandleVadStart

I_Final1 == vad_events = 1 /\ Len(finals) = 0 /\ HandleFinal(<<1>>)

I_Start2 == vad_events = 1 /\ Len(finals) = 1 /\ HandleVadStart

I_Final2 == vad_events = 2 /\ Len(finals) = 1 /\ HandleFinal(<<SPACE, 2>>)

I_End == vad_events = 2 /\ Len(finals) = 2 /\ HandleVadEnd

\* no time passes before the second final has been received
I_Tick == Len(finals) = 2 /\ Tick

InterruptedNext ==
    \/ I_Start1
    \/ I_Final1
    \/ I_Start2
    \/ I_Final2
    \/ I_End
    \/ I_Tick
    \/ SttFinalSent
    \/ SttEouResume
    \/ RlEouResume
    \/ \E t \in DOMAIN eou_tasks : EouStart(t)
    \/ \E t \in DOMAIN eou_tasks : EouWake(t)
    \/ \E t \in DOMAIN eou_tasks : EouTurnDone(t)
    \/ \E t \in DOMAIN eou_tasks : EouCancelled(t)

SpecInterrupted == Init /\ [][InterruptedNext]_vars

\* ---------------------------------------------------- the low-EOU run
\* a turn detector is configured and answers every detection with a
\* probability below the threshold; finals arrive while EOU tasks sleep
LowEouInit == Init /\ turn_detector

LowEouNext ==
    \/ SttFinal
    \/ SttFinalSent
    \/ SttEouResume
    \/ \E t \in DOMAIN eou_tasks : EouStartWith(t, 0)
    \/ \E t \in DOMAIN eou_tasks : EouWake(t)
    \/ \E t \in DOMAIN eou_tasks : EouTurnDone(t)
    \/ \E t \in DOMAIN eou_tasks : EouCancelled(t)
    \/ Tick

SpecLowEou == LowEouInit /\ [][LowEouNext]_vars

\* ------------------------------------------------- the audio stream
\* frames are pushed while the STT stream delivers interims, then stop()
AudioQueueNext ==
    \/ PushAudioFrame
    \/ AudioGeneratorGet
    \/ SttInterim
    \/ SttInterimSent
    \/ SttStreamEnd
    \/ Stop
    \/ StopTimeout
    \/ StopSttDone

SpecAudioQueue == Init /\ [][AudioQueueNext]_vars

\* ----------------------------------------- the session's audio frames
\* a coordinator as the session sees it
\* stt: its STT streaming task is "live", "failed" (it raised) or "done"
\* closing: stop() was called; frames: frames its push_audio_frame accepted
NewHandler == [stt |-> "live", closing |-> FALSE, frames |-> 0]

\* client_audio_start: start_audio_stream, create and start a coordinator
AudioStart ==
    /\ Len(recognition_handlers) < MaxStarts
    /\ is_audio_active' = TRUE
    /\ recognition_handlers' = Append(recognition_handlers, NewHandler)
    /\ audio_recognition_handler' = Len(recognition_handlers) + 1
    /\ UNCHANGED <<audio_chunk_count, ws_errors>>

HandleAudioStart == AudioStart /\ UNCHANGED <<mcVars, srVars, tnVars, dbVars, wcVars, stVars, vdVars, ebVars, cnVars, arVars, agVars, mrVars, aqVars>>

\* client_audio_chunk: count the chunk, push it to the coordinator if any
AudioChunk ==
    /\ audio_chunk_count < MaxFrames
    /\ audio_chunk_count' = audio_chunk_count + 1
    /\ LET h == audio_recognition_handler IN
         IF h # 0 /\ ~recognition_handlers[h].closing
         THEN recognition_handlers' =
                  [recognition_handlers EXCEPT ![h].frames = @ + 1]
         ELSE UNCHANGED recognition_handlers
    /\ UNCHANGED <<is_audio_active, audio_recognition_handler, ws_errors>>

HandleAudioChunk == AudioChunk /\ UNCHANGED <<mcVars, srVars, tnVars, dbVars, wcVars, stVars, vdVars, ebVars, cnVars, arVars, agVars, mrVars, aqVars>>

\* client_audio_end: stop() the coordinator, then end_audio_stream; stop()
\* re-raises the exception of a failed STT task, end_audio_stream is then
\* skipped and the AudioProcessingError is answered by handle_error
AudioEnd ==
    /\ LET h == audio_recognition_handler IN
         IF h = 0
         THEN /\ is_audio_active' = FALSE
              /\ UNCHANGED <<recognition_handlers, ws_errors>>
         ELSE IF recognition_handlers[h].stt = "failed"
         THEN /\ ws_errors < MaxErrors
              /\ recognition_handlers' =
                    [recognition_handlers EXCEPT ![h].closing = TRUE]
              /\ ws_errors' = ws_errors + 1
              /\ UNCHANGED is_audio_active
         ELSE /\ recognition_handlers' =
                    [recognition_handlers EXCEPT ![h].closing = TRUE,
                                                 ![h].stt = "done"]
              /\ is_audio_active' = FALSE
              /\ UNCHANGED ws_errors
    /\ UNCHANGED <<audio_recognition_handler, audio_chunk_count>>

HandleAudioEnd == AudioEnd /\ UNCHANGED <<mcVars, srVars, tnVars, dbVars, wcVars, stVars, vdVars, ebVars, cnVars, arVars, agVars, mrVars, aqVars>>

\* the STT stream of coordinator h raises
HandlerSttFails(h) ==
    /\ recognition_handlers[h].stt = "live"
    /\ recognition_handlers' = [recognition_handlers EXCEPT ![h].stt = "failed"]
    /\ UNCHANGED <<is_audio_active, audio_recognition_handler,
                   audio_chunk_count, ws_errors>>
    /\ UNCHANGED <<mcVars, srVars, tnVars, dbVars, wcVars, stVars, vdVars, ebVars, cnVars, arVars, agVars, mrVars, aqVars>>

SessionAudioNext ==
    \/ HandleAudioStart
    \/ HandleAudioChunk
    \/ HandleAudioEnd
    \/ \E h \in DOMAIN recognition_handlers : HandlerSttFails(h)

SpecSessionAudio == Init /\ [][SessionAudioNext]_vars

\* --------------------------------------- VAD events of the sessions
\* handle_audio_chunk, the VAD block, for one frame of a chunk of session
\* sid: the frame goes through the session's vad_handler, and an event
\* other than CONTINUING is forwarded to the session's coordinator.
\* Session 1 is the session whose audio state is followed; the other
\* sessions are streaming.
VadFrame(sid, p) ==
    /\ sid = 1 => is_audio_active
    /\ Len(vad_delivered[sid]) < MaxVadFrames
    /\ LET r == ProcessAudioFrame(is_speaking, p) IN
         /\ is_speaking' = r.is_speaking
         /\ vad_delivered' =
                IF /\ r.event # "CONTINUING"
                   /\ sid = 1 => audio_recognition_handler # 0
                THEN [vad_delivered EXCEPT ![sid] = Append(@, r.event)]
                ELSE vad_delivered
    /\ UNCHANGED <<mcVars, srVars, tnVars, dbVars, wcVars, stVars, ebVars, cnVars, arVars, agVars, mrVars, aqVars, seVars>>

VadNext ==
    \/ HandleAudioStart
    \/ HandleAudioEnd
    \/ \E sid \in SessionIds, p \in 0 .. MaxProb : VadFrame(sid, p)
    \/ Reset

SpecVad == Init /\ [][VadNext]_vars

\* -------------------------------------- start() on one coordinator
\* an STT streaming task: "running" (its audio_generator reads the
\* queue), "done" (the generator read the sentinel, the stream ended) or
\* "cancelled"; got: the frames its generator yielded
NewSttTask == [state |-> "running", got |-> <<>>]

\* the tasks whose audio_generator is reading _audio_queue
Consuming == {t \in DOMAIN stt_tasks : stt_tasks[t].state = "running"}

\* start(sample_rate, encoding): create_task, stored in _stt_stream_task
Start ==
    /\ Len(stt_tasks) < MaxStarts
    /\ stt_tasks' = Append(stt_tasks, NewSttTask)
    /\ stt_stream_task' = Len(stt_tasks) + 1
    /\ UNCHANGED <<st_audio_queue, st_closing, st_frames, stop_pc>>
    /\ UNCHANGED <<mcVars, srVars, tnVars, dbVars, wcVars, vdVars, ebVars, cnVars, arVars, agVars, mrVars, aqVars, seVars>>

\* push_audio_frame on this coordinator
StartPushFrame ==
    /\ st_frames < MaxFrames
    /\ ~st_closing
    /\ st_audio_queue' = Append(st_audio_queue, st_frames + 1)
    /\ st_frames' = st_frames + 1
    /\ UNCHANGED <<stt_stream_task, stt_tasks, st_closing, stop_pc>>
    /\ UNCHANGED <<mcVars, srVars, tnVars, dbVars, wcVars, vdVars, ebVars, cnVars, arVars, agVars, mrVars, aqVars, seVars>>

\* the audio_generator of task t gets one item of the queue
StartGeneratorGet(t) ==
    /\ stt_tasks[t].state = "running"
    /\ st_audio_queue # <<>>
    /\ st_audio_queue' = Tail(st_audio_queue)
    /\ stt_tasks' =
          IF Head(st_audio_queue) = SENTINEL
          THEN [stt_tasks EXCEPT ![t].state = "done"]
          ELSE [stt_tasks EXCEPT ![t].got = Append(@, Head(st_audio_queue))]
    /\ UNCHANGED <<stt_stream_task, st_closing, st_frames, stop_pc>>
    /\ UNCHANGED <<mcVars, srVars, tnVars, dbVars, wcVars, vdVars, ebVars, cnVars, arVars, agVars, mrVars, aqVars, seVars>>

\* stop(): _closing, one sentinel if there is a task, then wait_for it
StartStop ==
    /\ stop_pc = "idle"
    /\ st_closing' = TRUE
    /\ IF stt_stream_task # 0
       THEN /\ st_audio_queue' = Append(st_audio_queue, SENTINEL)
            /\ stop_pc' = "wait_stt"
       ELSE /\ stop_pc' = "stopped"
            /\ UNCHANGED st_audio_queue
    /\ UNCHANGED <<stt_stream_task, stt_tasks, st_frames>>
    /\ UNCHANGED <<mcVars, srVars, tnVars, dbVars, wcVars, vdVars, ebVars, cnVars, arVars, agVars, mrVars, aqVars, seVars>>

\* wait_for(self._stt_stream_task, 2.0) ends: the task is done, or the
\* timeout cancels it
StartStopEnd ==
    /\ stop_pc = "wait_stt"
    /\ stt_tasks' =
          IF stt_tasks[stt_stream_task].state = "running"
          THEN [stt_tasks EXCEPT ![stt_stream_task].state = "cancelled"]
          ELSE stt_tasks
    /\ stop_pc' = "stopped"
    /\ UNCHANGED <<stt_stream_task, st_audio_queue, st_closing, st_frames>>
    /\ UNCHANGED <<mcVars, srVars, tnVars, dbVars, wcVars, vdVars, ebVars, cnVars, arVars, agVars, mrVars, aqVars, seVars>>

StartNext ==
    \/ Start
    \/ StartPushFrame
    \/ \E t \in DOMAIN stt_tasks : StartGeneratorGet(t)
    \/ StartStop
    \/ StartStopEnd

SpecStart == Init /\ [][StartNext]_vars

\* ------------------------------------------------- the wire codec
\* A raw client message: its type, its session_id (a string: character
\* SPACE is white space), its data and whether it carries a top-level key
\* the models do not declare. data is "none" (no data key), "empty" ({}),
\* "good" (an object that passes the validator of every type) or "bad"
\* (an object that passes none).
WireTypes ==
    {"client_text", "client_audio_start", "client_audio_chunk",
     "client_audio_end"}

SidStrings == UNION {[1 .. n -> {SPACE, 1}] : n \in 0 .. MaxSidLen}

DataObjects == {"none", "empty", "good", "bad"}

WireMessages ==
    [type : WireTypes \cup {"unknown"}, session_id : SidStrings,
     data : DataObjects, extra : BOOLEAN]

\* validate_session_id returns v.strip()
ValidateSessionIdLeading(v) == LStrip(v)
ValidateSessionId(v) == Strip(v)

\* validate_session_id raises for an empty or blank session_id
SessionIdRejected(v) == v = <<>> \/ Strip(v) = <<>>

\* the data field after construction: default_factory=dict
DataField(m) == IF m.data = "none" THEN "empty" ELSE m.data

\* the model validators: text, sample_rate and chunk are required;
\* ClientAudioEndMessage has no validator
DataAccepted(m) == m.type = "client_audio_end" \/ DataField(m) = "good"

\* parse_client_message raises MessageValidationError
ParseRejects(m) ==
    \/ m.type \notin WireTypes
    \/ SessionIdRejected(m.session_id)
    \/ ~DataAccepted(m)

\* the message object parse_client_message returns (undeclared keys are
\* ignored by the models)
ParsedMessage(m) ==
    [type |-> m.type, session_id |-> ValidateSessionId(m.session_id),
     data |-> DataField(m)]

\* model_dump_json: the declared fields of the message object
ModelDumpJson(msg) ==
    [type |-> msg.type, session_id |-> msg.session_id, data |-> msg.data,
     extra |-> FALSE]

\* decode a raw message and encode the result
RoundTrip(m) ==
    /\ wire_in' = m
    /\ IF ParseRejects(m)
       THEN /\ wire_pc' = "rejected"
            /\ wire_out' = NoMessage
       ELSE /\ wire_pc' = "accepted"
            /\ wire_out' = ModelDumpJson(ParsedMessage(m))
    /\ UNCHANGED <<mcVars, srVars, tnVars, dbVars, stVars, vdVars, ebVars, cnVars, arVars, agVars, mrVars, aqVars, seVars>>

WireNext == \E m \in WireMessages : RoundTrip(m)

SpecWire == Init /\ [][WireNext]_vars

\* ------------------------------------------- dashboard_endpoint
\* Event.to_json: every event goes out as a message of type "event"
EventJson(event_type) == [type |-> "event", event_type |-> event_type]

InitialState == [type |-> "initial_state", event_type |-> "none"]

Pong == [type |-> "pong", event_type |-> "none"]

\* the event types other tasks publish on the bus
BusEventTypes == {"session_created", "message_received"}

\* event_callback(event): nothing if the connection is inactive; else
\* send_text, and a failed send makes the connection inactive
EventCallback(event_type, ok) ==
    IF ~connection_active
    THEN UNCHANGED <<connection_active, db_sent>>
    ELSE IF ok
    THEN /\ db_sent' = Append(db_sent, EventJson(event_type))
         /\ UNCHANGED connection_active
    ELSE /\ connection_active' = FALSE
         /\ UNCHANGED db_sent

\* the api key check, then: connection_active = True, subscribe, and the
\* callback is called with the dashboard_test event
DashSubscribe(key, ok) ==
    /\ db_pc = "accepted"
    /\ IF key = "rejected"
       THEN /\ db_pc' = "closed"
            /\ UNCHANGED <<db_subscribed, connection_active, db_sent>>
       ELSE /\ db_subscribed' = TRUE
            /\ db_pc' = "initial_state"
            /\ IF ok
               THEN /\ db_sent' = Append(db_sent, EventJson("dashboard_test"))
                    /\ connection_active' = TRUE
               ELSE /\ connection_active' = FALSE
                    /\ UNCHANGED db_sent
    /\ UNCHANGED <<mcVars, srVars, tnVars, wcVars, stVars, vdVars, ebVars, cnVars, arVars, agVars, mrVars, aqVars, seVars>>

\* send the initial_state snapshot, then sleep(0.1); a failed send skips
\* the dashboard_connected event and makes the connection inactive
DashInitialState(ok) ==
    /\ db_pc = "initial_state"
    /\ IF ok
       THEN /\ db_sent' = Append(db_sent, InitialState)
            /\ db_pc' = "sleep"
            /\ UNCHANGED connection_active
       ELSE /\ connection_active' = FALSE
            /\ db_pc' = "open"
            /\ UNCHANGED db_sent
    /\ UNCHANGED db_subscribed
    /\ UNCHANGED <<mcVars, srVars, tnVars, wcVars, stVars, vdVars, ebVars, cnVars, arVars, agVars, mrVars, aqVars, seVars>>

\* after the sleep: the dashboard_connected event, sent directly
DashConnected(ok) ==
    /\ db_pc = "sleep"
    /\ db_pc' = "open"
    /\ IF ok
       THEN /\ db_sent' = Append(db_sent, EventJson("dashboard_connected"))
            /\ UNCHANGED connection_active
       ELSE /\ connection_active' = FALSE
            /\ UNCHANGED db_sent
    /\ UNCHANGED db_subscribed
    /\ UNCHANGED <<mcVars, srVars, tnVars, wcVars, stVars, vdVars, ebVars, cnVars, arVars, agVars, mrVars, aqVars, seVars>>

\* another task publishes an event while the endpoint is at an await:
\* the bus calls the subscribed callback
DashBusEvent(event_type, ok) ==
    /\ db_subscribed
    /\ db_pc \in {"initial_state", "sleep", "open"}
    /\ Len(db_sent) < MaxDashSent
    /\ EventCallback(event_type, ok)
    /\ UNCHANGED <<db_pc, db_subscribed>>
    /\ UNCHANGED <<mcVars, srVars, tnVars, wcVars, stVars, vdVars, ebVars, cnVars, arVars, agVars, mrVars, aqVars, seVars>>

\* handle_incoming_messages: a ping is answered with a pong
DashPing(ok) ==
    /\ db_pc = "open"
    /\ connection_active
    /\ Len(db_sent) < MaxDashSent
    /\ IF ok
       THEN /\ db_sent' = Append(db_sent, Pong)
            /\ UNCHANGED connection_active
       ELSE /\ connection_active' = FALSE
            /\ UNCHANGED db_sent
    /\ UNCHANGED <<db_pc, db_subscribed>>
    /\ UNCHANGED <<mcVars, srVars, tnVars, wcVars, stVars, vdVars, ebVars, cnVars, arVars, agVars, mrVars, aqVars, seVars>>

\* the message task ends (disconnect, or the connection is inactive);
\* finally: unsubscribe
DashClose ==
    /\ db_pc = "open"
    /\ db_pc' = "closed"
    /\ connection_active' = FALSE
    /\ db_subscribed' = FALSE
    /\ UNCHANGED db_sent
    /\ UNCHANGED <<mcVars, srVars, tnVars, wcVars, stVars, vdVars, ebVars, cnVars, arVars, agVars, mrVars, aqVars, seVars>>

DashboardNext ==
    \/ \E key \in {"missing", "rejected", "valid"}, ok \in BOOLEAN :
          DashSubscribe(key, ok)
    \/ \E ok \in BOOLEAN : DashInitialState(ok)
    \/ \E ok \in BOOLEAN : DashConnected(ok)
    \/ \E e \in BusEventTypes, ok \in BOOLEAN : DashBusEvent(e, ok)
    \/ \E ok \in BOOLEAN : DashPing(ok)
    \/ DashClose

SpecDashboard == Init /\ [][DashboardNext]_vars

\* ------------------------------------- the agent turns of a session
\* the message appended by turn number n of source src
TurnMessage(src, n, role) == [src |-> src, n |-> n, role |-> role]

TurnInFlight(src) == turn_pc[src] # "idle"

\* process_text_async begins: the user message is added to the session.
\* The receive loop awaits handle_text_message, the EOU task awaits
\* on_turn_end: each starts its next turn only after its last one ended;
\* nothing makes either wait for the other.
TurnBegin(src) ==
    /\ turn_pc[src] = "idle"
    /\ turn_no["text"] + turn_no["audio"] < MaxSessionTurns
    /\ turn_no' = [turn_no EXCEPT ![src] = @ + 1]
    /\ turn_conversation' =
          Append(turn_conversation, TurnMessage(src, turn_no[src] + 1, "user"))
    /\ turn_pc' = [turn_pc EXCEPT ![src] = "stream"]
    /\ UNCHANGED <<mcVars, srVars, dbVars, wcVars, stVars, vdVars, ebVars, cnVars, arVars, agVars, mrVars, aqVars, seVars>>

\* the first stream ended with tool calls: the tool results are added to
\* the session, the second stream is opened
TurnToolRound(src) ==
    /\ turn_pc[src] = "stream"
    /\ turn_conversation' =
          Append(turn_conversation, TurnMessage(src, turn_no[src], "tool"))
    /\ turn_pc' = [turn_pc EXCEPT ![src] = "stream2"]
    /\ UNCHANGED turn_no
    /\ UNCHANGED <<mcVars, srVars, dbVars, wcVars, stVars, vdVars, ebVars, cnVars, arVars, agVars, mrVars, aqVars, seVars>>

\* the last stream ended: the assistant message is added if there is
\* text, the turn is over
TurnEnd(src, has_text) ==
    /\ TurnInFlight(src)
    /\ turn_conversation' =
          IF has_text
          THEN Append(turn_conversation,
                      TurnMessage(src, turn_no[src], "assistant"))
          ELSE turn_conversation
    /\ turn_pc' = [turn_pc EXCEPT ![src] = "idle"]
    /\ UNCHANGED turn_no
    /\ UNCHANGED <<mcVars, srVars, dbVars, wcVars, stVars, vdVars, ebVars, cnVars, arVars, agVars, mrVars, aqVars, seVars>>

\* the EOU task is cancelled while it awaits on_turn_end: the turn it runs
\* ends where it stands
TurnCancelled ==
    /\ TurnInFlight("audio")
    /\ turn_pc' = [turn_pc EXCEPT !["audio"] = "idle"]
    /\ UNCHANGED <<turn_no, turn_conversation>>
    /\ UNCHANGED <<mcVars, srVars, dbVars, wcVars, stVars, vdVars, ebVars, cnVars, arVars, agVars, mrVars, aqVars, seVars>>

TurnsNext ==
    \/ \E src \in TurnSources : TurnBegin(src)
    \/ \E src \in TurnSources : TurnToolRound(src)
    \/ \E src \in TurnSources, has_text \in BOOLEAN : TurnEnd(src, has_text)
    \/ TurnCancelled

SpecTurns == Init /\ [][TurnsNext]_vars

\* ---------------------------------- sample rates of stream and VAD
\* validate_audio_start: the sample rates a client_audio_start may carry
StreamSampleRates == {8000, 16000, 44100, 48000}

\* SUPPORTED_SAMPLE_RATES of the Silero handler
SupportedSampleRates == {8000, 16000}

\* Session(...) is built: with the handler of the AgentSession, which was
\* created from the VAD configuration with its sample rate; or without
\* one, VAD enabled (the plugin creates a handler later) or disabled
SessionCreate(mode, rate) ==
    /\ vad_mode = "none"
    /\ vad_mode' = mode
    /\ provided_sample_rate' = IF mode = "provided" THEN rate ELSE 0
    /\ UNCHANGED <<vad_initialized, vad_sample_rate, stream_sample_rate,
                   stream_active, stream_count>>
    /\ UNCHANGED <<mcVars, tnVars, dbVars, wcVars, stVars, vdVars, ebVars, cnVars, arVars, agVars, mrVars, aqVars, seVars>>

\* start_audio_stream(sample_rate, encoding): the VAD handler is set only
\* while _vad_initialized is false; the provided handler is taken as it
\* is, the plugin's is created with the stream's sample rate, and
\* SileroVADHandler raises for a rate it does not support
StartAudioStream(rate) ==
    /\ vad_mode # "none"
    /\ stream_count < MaxStarts
    /\ stream_count' = stream_count + 1
    /\ stream_active' = TRUE
    /\ stream_sample_rate' = rate
    /\ IF vad_initialized \/ vad_mode = "disabled"
       THEN UNCHANGED <<vad_initialized, vad_sample_rate>>
       ELSE IF vad_mode = "provided"
       THEN /\ vad_sample_rate' = provided_sample_rate
            /\ vad_initialized' = TRUE
       ELSE IF rate \in SupportedSampleRates
       THEN /\ vad_sample_rate' = rate
            /\ vad_initialized' = TRUE
       ELSE /\ vad_sample_rate' = 0
            /\ UNCHANGED vad_initialized
    /\ UNCHANGED <<vad_mode, provided_sample_rate>>
    /\ UNCHANGED <<mcVars, tnVars, dbVars, wcVars, stVars, vdVars, ebVars, cnVars, arVars, agVars, mrVars, aqVars, seVars>>

\* end_audio_stream
EndAudioStream ==
    /\ vad_mode # "none"
    /\ stream_active
    /\ stream_active' = FALSE
    /\ UNCHANGED <<vad_mode, vad_initialized, vad_sample_rate,
                   provided_sample_rate, stream_sample_rate, stream_count>>
    /\ UNCHANGED <<mcVars, tnVars, dbVars, wcVars, stVars, vdVars, ebVars, cnVars, arVars, agVars, mrVars, aqVars, seVars>>

SampleRateNext ==
    \/ \E mode \in {"provided", "plugin", "disabled"},
          rate \in SupportedSampleRates : SessionCreate(mode, rate)
    \/ \E rate \in StreamSampleRates : StartAudioStream(rate)
    \/ EndAudioStream

SpecSampleRate == Init /\ [][SampleRateNext]_vars

\* ---------------------------------- connections and the metric
\* MetricsCollector.increment_connection / decrement_connection
IncrementConnection(n) == n + 1
DecrementConnection(n) == IF n - 1 > 0 THEN n - 1 ELSE 0

\* a client connects: await websocket.accept()
EndpointAccept(c) ==
    /\ endpoint_pc[c] = "none"
    /\ endpoint_pc' = [endpoint_pc EXCEPT ![c] = "accepted"]
    /\ UNCHANGED <<connections, active_connections>>
    /\ UNCHANGED <<srVars, tnVars, dbVars, wcVars, stVars, vdVars, ebVars, cnVars, arVars, agVars, mrVars, aqVars, seVars>>

\* the headers are checked: with a valid key and an app id the connection
\* is counted and entered into `connections`, the session is created and
\* the receive loop starts; otherwise AuthenticationError is raised and
\* the handler awaits websocket.close(1008)
EndpointAuthenticate(c, ok) ==
    /\ endpoint_pc[c] = "accepted"
    /\ IF ok
       THEN /\ active_connections' = IncrementConnection(active_connections)
            /\ connections' = connections \cup {c}
            /\ endpoint_pc' = [endpoint_pc EXCEPT ![c] = "open"]
       ELSE /\ endpoint_pc' = [endpoint_pc EXCEPT ![c] = "rejected"]
            /\ UNCHANGED <<connections, active_connections>>
    /\ UNCHANGED <<srVars, tnVars, dbVars, wcVars, stVars, vdVars, ebVars, cnVars, arVars, agVars, mrVars, aqVars, seVars>>

\* the handler ends (disconnect, error, or the close after a failed
\* authentication has returned): the finally block pops the connection
\* and decrements the metric
EndpointFinally(c) ==
    /\ endpoint_pc[c] \in {"open", "rejected"}
    /\ connections' = connections \ {c}
    /\ active_connections' = DecrementConnection(active_connections)
    /\ endpoint_pc' = [endpoint_pc EXCEPT ![c] = "closed"]
    /\ UNCHANGED <<srVars, tnVars, dbVars, wcVars, stVars, vdVars, ebVars, cnVars, arVars, agVars, mrVars, aqVars, seVars>>

MetricNext ==
    \E c \in ConnectionIds :
        \/ EndpointAccept(c)
        \/ \E ok \in BOOLEAN : EndpointAuthenticate(c, ok)
        \/ EndpointFinally(c)

SpecMetric == Init /\ [][MetricNext]_vars

\* ------------------------------------------------- websocket_endpoint
\* text turns are followed in SpecAgent; here the connection carries audio
\* frames and frames that do not parse
ClientTypes ==
    {"client_audio_start", "client_audio_chunk", "client_audio_end"}

\* a received frame: json_ok, json.loads succeeds; fields_ok, the pydantic
\* validators of its message class accept it; sid, its session_id
ClientFrames ==
    [json_ok : BOOLEAN, type : ClientTypes \cup {"unknown"},
     fields_ok : BOOLEAN, sid : SessionIds]

\* json.loads and parse_client_message return a message (TRUE) or raise
\* MessageValidationError (FALSE)
ParseClientMessageLax(f) == f.json_ok /\ f.type \in ClientTypes
ParseClientMessage(f) == f.json_ok /\ f.type \in ClientTypes /\ f.fields_ok

\* Session.is_expired(timeout_seconds)
IsExpired(sid) == now - sessions[sid] > SessionTimeout

\* GET /api/sessions/{session_id}
GetSession(sid) == IF sessions[sid] = Absent THEN 404 ELSE 200

\* not api_key or not config.api_key_validator(api_key); not app_id
AuthorizedKeyOnly(api_key, app_id) == api_key = "valid"
Authorized(api_key, app_id) == api_key = "valid" /\ app_id = "present"

\* the headers are checked; on success the initial session (id 1) is put
\* into the store and server_connected is sent, otherwise the websocket is
\* closed (1008, or 1011 when the validator itself raises)
Authenticate(api_key, app_id) ==
    /\ ws_pc = "accepted"
    /\ IF Authorized(api_key, app_id)
       THEN /\ sessions' = [sessions EXCEPT ![1] = now]
            /\ ws_connected' = TRUE
            /\ ws_pc' = "open"
       ELSE /\ ws_pc' = "closed"
            /\ UNCHANGED <<sessions, ws_connected>>
    /\ UNCHANGED <<now, events, frames_received>>
    /\ UNCHANGED <<mcVars, srVars, tnVars, dbVars, wcVars, stVars, vdVars, ebVars, arVars, agVars, mrVars, aqVars, seVars>>

\* one iteration of the message loop.  seVars are the audio state of
\* session 1; the audio state of another session is not followed.
RecvFrame(f) ==
    /\ ws_pc = "open"
    /\ Len(frames_received) < MaxClientFrames
    /\ frames_received' = Append(frames_received, ParseClientMessage(f))
    /\ IF ~ParseClientMessage(f)
       THEN /\ ws_errors' = ws_errors + 1
            /\ UNCHANGED <<sessions, events, is_audio_active,
                           audio_recognition_handler, recognition_handlers,
                           audio_chunk_count>>
       ELSE /\ sessions' = [sessions EXCEPT ![f.sid] = now]
            /\ events' = IF sessions[f.sid] = Absent
                         THEN events \cup {"session_created"}
                         ELSE events
            /\ IF f.sid # 1 THEN UNCHANGED seVars
               ELSE IF f.type = "client_audio_start" THEN AudioStart
               ELSE IF f.type = "client_audio_chunk" THEN AudioChunk
               ELSE AudioEnd
    /\ UNCHANGED <<ws_pc, now, ws_connected>>
    /\ UNCHANGED <<mcVars, srVars, tnVars, dbVars, wcVars, stVars, vdVars, ebVars, arVars, agVars, mrVars, aqVars>>

\* receive_text raises WebSocketDisconnect: the loop is left and the
\* finally block drops the connection from `connections`
Disconnect ==
    /\ ws_pc = "open"
    /\ ws_pc' = "closed"
    /\ UNCHANGED <<sessions, now, events, ws_connected, frames_received>>
    /\ UNCHANGED <<mcVars, srVars, tnVars, dbVars, wcVars, stVars, vdVars, ebVars, arVars, agVars, mrVars, aqVars, seVars>>

\* time passes
StoreTick ==
    /\ now < MaxNow
    /\ now' = now + 1
    /\ UNCHANGED <<ws_pc, sessions, events, ws_connected, frames_received>>
    /\ UNCHANGED <<mcVars, srVars, tnVars, dbVars, wcVars, stVars, vdVars, ebVars, arVars, agVars, mrVars, aqVars, seVars>>

\* x-api-key: missing, rejected by the validator, the validator raises, or
\* accepted; x-app-id: missing or present
ApiKeys == {"missing", "rejected", "raises", "valid"}
AppIds == {"missing", "present"}

ConnectionNext ==
    \/ \E k \in ApiKeys, a \in AppIds : Authenticate(k, a)
    \/ \E f \in ClientFrames : RecvFrame(f)
    \/ Disconnect
    \/ StoreTick

SpecConnection == Init /\ [][ConnectionNext]_vars

\* ------------------------------------------------------------ EventBus
RECURSIVE SeqToSet(_)
SeqToSet(q) == IF q = <<>> THEN {} ELSE {Head(q)} \cup SeqToSet(Tail(q))

\* subscribe(callback), the callback being of kind k: a callback is of one
\* kind for good
Subscribe(c, k) ==
    /\ c \notin SeqToSet(subscribers)
    /\ cb_kind[c] \in {"unknown", k}
    /\ subscribers' = Append(subscribers, c)
    /\ cb_kind' = [cb_kind EXCEPT ![c] = k]
    /\ UNCHANGED <<eb_pc, eb_snapshot, eb_tasks, invoked, eb_result,
                   event_count>>
    /\ UNCHANGED <<mcVars, srVars, tnVars, dbVars, wcVars, stVars, vdVars, arVars, agVars, mrVars, aqVars, seVars, cnVars>>

\* unsubscribe(callback)
Unsubscribe(c) ==
    /\ c \in SeqToSet(subscribers)
    /\ subscribers' = SelectSeq(subscribers, LAMBDA x : x # c)
    /\ UNCHANGED <<cb_kind, eb_pc, eb_snapshot, eb_tasks, invoked, eb_result,
                   event_count>>
    /\ UNCHANGED <<mcVars, srVars, tnVars, dbVars, wcVars, stVars, vdVars, arVars, agVars, mrVars, aqVars, seVars, cnVars>>

\* calls of callback c made by the for loop itself: a plain function runs
\* when it is called, a coroutine function only returns its coroutine
DirectCalls(c) == IF cb_kind[c] \in {"async_ok", "async_raises"} THEN 0 ELSE 1

\* the loop appends a task for c: its coroutine, or a to_thread task when
\* the call returned no coroutine or raised TypeError; any other exception
\* of the call is logged
HasTask(c) == cb_kind[c] # "sync_raises"

\* a task of gather ends with an exception
TaskRaises(c) == cb_kind[c] \in {"async_raises", "sync_type_error"}

\* await asyncio.gather(*task_list, return_exceptions=True)
GatherPropagates(tasks) ==
    IF \E i \in DOMAIN tasks : TaskRaises(tasks[i]) THEN "raised"
    ELSE "returned"
Gather(tasks) == "returned"

\* publish up to the await: the snapshot is taken and every callback of it
\* is called once
PublishStart ==
    /\ eb_pc = "idle"
    /\ event_count < MaxEvents
    /\ event_count' = event_count + 1
    /\ eb_snapshot' = subscribers
    /\ invoked' = [c \in Callbacks |->
                      IF c \in SeqToSet(subscribers) THEN DirectCalls(c)
                      ELSE 0]
    /\ LET tasks == SelectSeq(subscribers, HasTask) IN
         IF tasks = <<>>
         THEN /\ eb_tasks' = <<>>
              /\ eb_pc' = "idle"
              /\ eb_result' = "returned"
         ELSE /\ eb_tasks' = tasks
              /\ eb_pc' = "gather"
              /\ eb_result' = "none"
    /\ UNCHANGED <<subscribers, cb_kind>>
    /\ UNCHANGED <<mcVars, srVars, tnVars, dbVars, wcVars, stVars, vdVars, arVars, agVars, mrVars, aqVars, seVars, cnVars>>

\* the gathered tasks have run: each runs its callback once
PublishGather ==
    /\ eb_pc = "gather"
    /\ invoked' = [c \in Callbacks |->
                      IF c \in SeqToSet(eb_tasks) THEN invoked[c] + 1
                      ELSE invoked[c]]
    /\ eb_result' = Gather(eb_tasks)
    /\ eb_tasks' = <<>>
    /\ eb_pc' = "idle"
    /\ UNCHANGED <<subscribers, cb_kind, eb_snapshot, event_count>>
    /\ UNCHANGED <<mcVars, srVars, tnVars, dbVars, wcVars, stVars, vdVars, arVars, agVars, mrVars, aqVars, seVars, cnVars>>

EventBusNext ==
    \/ \E c \in Callbacks, k \in CallbackKinds : Subscribe(c, k)
    \/ \E c \in Callbacks : Unsubscribe(c)
    \/ PublishStart
    \/ PublishGather

SpecEventBus == Init /\ [][EventBusNext]_vars

\* ------------------------------------------------------------- claims
Contains(text, n) == \E i \in DOMAIN text : text[i] = n

\* the words of a string, spaces dropped
Words(s) == SelectSeq(s, LAMBDA c : c # SPACE)

RECURSIVE CommittedWords(_)
CommittedWords(cs) ==
    IF cs = <<>> THEN <<>>
    ELSE Words(Head(cs).text) \o CommittedWords(Tail(cs))

\* C1: the string passed to on_turn_end is read after the endpointing
\* sleep: every final folded into audio_transcript while the committing
\* task slept is part of the committed transcript.
C1_CommitReadsAfterSleep ==
    \A i \in DOMAIN commits :
        \A n \in commits[i].saw : Contains(commits[i].text, n)

C1_Witness == \E i \in DOMAIN commits : commits[i].saw # {}

\* C2: an EOU task that received a new final during its endpointing
\* sleep is cancelled before its commit step runs, so no commit is made by
\* a task that saw a final while it slept.
C2_CancelledBeforeCommit ==
    \A i \in DOMAIN commits : commits[i].saw = {}

\* C3: without stop, the committed transcripts followed by the accumulator
\* hold every final received so far exactly once and in arrival order.
C3_NoFinalLost ==
    ~closing =>
        CommittedWords(commits) \o Words(audio_transcript)
            = [n \in 1 .. Len(finals) |-> n]

C3_Witness ==
    /\ ~closing
    /\ Len(commits) >= 1
    /\ Contains(commits[1].text, 1)
    /\ Contains(commits[1].text, 2)

\* C4: after stop() has returned, on_turn_end is never invoked again.
C4_NoCommitAfterStop ==
    [][rl_pc = "stopped" => commits' = commits]_vars

\* ----------------------------------------------- agent loop claims
Last(seq) == seq[Len(seq)]

ServerTexts == { j \in DOMAIN emitted : emitted[j].type = "server_text" }

\* the iteration ran to completion with exactly one server_text, sent last
OneFinalText ==
    /\ Cardinality(ServerTexts) = 1
    /\ Last(emitted).type = "server_text"

C7_AllRoundsExecuted ==
    ag_pc = "done" =>
        \A n \in 1 .. model_calls :
            \E j \in DOMAIN emitted :
                /\ emitted[j].type = "server_tool_result"
                /\ emitted[j].id = n

\* C8: every server_tool_result directly follows the server_tool_call of
\* the same call, calls are handled in the model's order, and a completed
\* turn ends with server_text.
C8_CallThenResult ==
    /\ \A j \in DOMAIN emitted :
          emitted[j].type = "server_tool_result" =>
              /\ j > 1
              /\ emitted[j - 1].type = "server_tool_call"
              /\ emitted[j - 1].id = emitted[j].id
    /\ \A j, k \in DOMAIN emitted :
          (j < k /\ emitted[j].type = "server_tool_call"
                 /\ emitted[k].type = "server_tool_call")
              => emitted[j].id < emitted[k].id
    /\ ag_pc = "done" => Last(emitted).type = "server_text"

\* a turn in which the model asked for exactly one tool call, the tool
\* returned, and the model then answered with text
OneToolTurnDone ==
    /\ ag_pc = "done"
    /\ Len(tool_calls_to_execute) = 1
    /\ \E j \in DOMAIN emitted :
          emitted[j].type = "server_tool_result"
              /\ emitted[j].status = "completed"
    /\ Last(emitted).text # <<>>
    /\ final_text # <<>>

\* C9: after such a turn the conversation ends with user, assistant (with
\* the tool call), tool (the result), assistant (final text).
C9_FourMessages ==
    OneToolTurnDone =>
        LET n == Len(conversation) IN
        /\ n >= 4
        /\ conversation[n - 3].role = "user"
        /\ conversation[n - 2].role = "assistant"
        /\ conversation[n - 2].tool_calls # <<>>
        /\ conversation[n - 1].role = "tool"
        /\ conversation[n].role = "assistant"

\* ------------------------------------------- conversation order claim
\* every assistant message with k tool calls is followed by k tool messages
\* that carry one result each
CausalOrder(msgs) ==
    \A i \in DOMAIN msgs :
        (msgs[i].role = "assistant" /\ msgs[i].tool_calls # <<>>) =>
            LET k == Len(msgs[i].tool_calls) IN
            /\ i + k <= Len(msgs)
            /\ \A j \in 1 .. k :
                  /\ msgs[i + j].role = "tool"
                  /\ Len(msgs[i + j].tool_calls) = 1

\* C6: the conversation of the streaming loop and the messages list of
\* Model.response keep the causal order in every reachable state.
C6_CausalOrder == CausalOrder(conversation) /\ CausalOrder(messages)

\* ------------------------------------------ interrupted-speaker claim
AllEouDone == \A t \in DOMAIN eou_tasks : TaskDone(t)

InterruptedOver ==
    /\ vad_events = 3
    /\ Len(finals) = 2
    /\ stt_pc = "recv"
    /\ rl_pc = "recv"
    /\ AllEouDone

\* C10: the run ends with exactly one on_turn_end, whose transcript is
\* "hello world": the two words in order with a single space between.
C10_HelloWorldOnce ==
    /\ Len(commits) <= 1
    /\ \A i \in DOMAIN commits : commits[i].text = <<1, SPACE, 2>>
    /\ InterruptedOver => Len(commits) = 1

\* ------------------------------------------------ endpointing claims
\* C11: an EOU task that was in its endpointing sleep when START_OF_SPEECH
\* was handled never commits.
C11_StartCancelsSleeping ==
    \A i \in DOMAIN commits : ~commits[i].vs

\* task t runs its first step and goes to sleep in this step
StartsSleep(t) ==
    eou_tasks[t].st = "new" /\ eou_tasks'[t].st = "sleep"

\* C12: the delay an EOU task chooses is min_delay when no turn detector is
\* configured, min_delay when the probability is at or above the threshold,
\* and max_delay when the probability is below the threshold.
C12_DelayChoice ==
    [][\A t \in DOMAIN eou_tasks :
          StartsSleep(t) =>
              LET p == eou_tasks'[t].det
                  d == eou_tasks'[t].timer
              IN /\ ~turn_detector => d = MinDelay
                 /\ (turn_detector /\ p >= Threshold) => d = MinDelay
                 /\ (turn_detector /\ p >= 0 /\ p < Threshold)
                        => d = MaxDelay]_vars

C12_Witness ==
    /\ turn_detector
    /\ \E t \in DOMAIN eou_tasks :
          /\ eou_tasks[t].st = "sleep"
          /\ eou_tasks[t].det = Threshold
          /\ eou_tasks[t].timer = MinDelay
    /\ \E t \in DOMAIN eou_tasks :
          /\ eou_tasks[t].st = "sleep"
          /\ eou_tasks[t].det >= 0
          /\ eou_tasks[t].det < Threshold
          /\ eou_tasks[t].timer = MaxDelay

\* C13: when the turn detection fails, the task goes on and chooses
\* max_delay.
C13_FailureMaxDelay ==
    [][\A t \in DOMAIN eou_tasks :
          (StartsSleep(t) /\ eou_tasks'[t].det = LookupRaised)
              => eou_tasks'[t].timer = MaxDelay]_vars

\* C14: with the probability below the threshold, every commit happens at
\* least max_delay after the latest final folded into the committed
\* transcript: a final that arrives during the wait restarts the wait.
C14_WaitRestarts ==
    \A i \in DOMAIN commits :
        commits[i].saw = {} \/ commits[i].left >= MaxDelay

\* ------------------------------------------------- audio queue claim
\* C15: the frames yielded to the STT client are the accepted frames in the
\* order they were pushed, and once stop() has returned every accepted
\* frame has been yielded.
C15_FramesForwarded ==
    /\ frames_yielded = [i \in 1 .. Len(frames_yielded) |-> i]
    /\ Len(frames_yielded) <= frames_pushed
    /\ rl_pc = "stopped" => Len(frames_yielded) = frames_pushed

\* --------------------------------------------- session audio claims
LiveHandlers ==
    { h \in DOMAIN recognition_handlers : recognition_handlers[h].stt = "live" }

\* C16: a session never has more than one coordinator whose STT streaming
\* task is live.
C16_OneLiveCoordinator == Cardinality(LiveHandlers) <= 1

\* ------------------------------------------------ tool failure claims
TimedOut == { k \in DOMAIN tool_outcomes : tool_outcomes[k] = "timeout" }

\* C17: once a tool invocation has timed out the iteration never fails; the
\* loop goes on with the remaining calls and then opens the second stream;
\* when the turn is done the timed-out call has a failed server_tool_result,
\* its error message is in the conversation, every call has been handled
\* and the last message emitted is the server_text.
C17_TimeoutSurfaced ==
    TimedOut # {} =>
        /\ ag_pc \in {"tools", "exec", "stream2", "done"}
        /\ ag_pc \in {"tools", "exec"}
              <=> Len(tool_outcomes) < Len(tool_calls_to_execute)
        /\ \A k \in TimedOut :
              \E j \in DOMAIN emitted :
                 emitted[j] = ToolResultMsg(tool_calls_to_execute[k], "failed")
        /\ ag_pc = "done" =>
              /\ Last(emitted).type = "server_text"
              /\ \A k \in TimedOut :
                    LET c == tool_calls_to_execute[k] IN
                    \E i \in DOMAIN conversation :
                       conversation[i] = ToolMessage(c.name, ErrorContent(c))

\* the first of two calls timed out, the second was still executed, and
\* the turn is done
C17_Witness ==
    /\ ag_pc = "done"
    /\ Len(tool_outcomes) = 2
    /\ tool_outcomes[1] = "timeout"
    /\ tool_outcomes[2] = "returned"

\* C18: a handled tool call whose arguments could not be parsed has been
\* announced with a server_tool_call and the tool has been invoked (with an
\* empty arguments object), and its tool-result content is recorded.
C18_ParseFailureStillInvoked ==
    \A k \in DOMAIN tool_outcomes :
        LET c == tool_calls_to_execute[k] IN
        ~c.args_ok =>
            /\ \E j \in DOMAIN emitted : emitted[j] = ToolCallMsg(c)
            /\ tool_outcomes[k] \in {"returned", "raised", "timeout"}
            /\ \E j \in DOMAIN emitted :
                  /\ emitted[j].type = "server_tool_result"
                  /\ emitted[j].id = c.id

\* ------------------------------------------------ stream failure claim
\* C19: the step in which a model stream raises ends the turn: the turn's
\* messages then hold a server_text carrying the text accumulated so far
\* and a server_error.
C19_StreamFailureEndsTurn ==
    [][(Stream1Raise \/ Stream2Raise) =>
          /\ ag_pc' \in {"done", "failed"}
          /\ \E j \in DOMAIN emitted' :
                /\ emitted'[j].type = "server_text"
                /\ emitted'[j].text \in {accumulated_text, final_text}
          /\ \E j \in DOMAIN emitted' : emitted'[j] = ErrorMsg]_vars

\* ------------------------------------------------ session history claim
IsPrefix(a, b) ==
    /\ Len(a) <= Len(b)
    /\ \A i \in DOMAIN a : b[i] = a[i]

C21_SttFailureSurfaced ==
    [][LET h == audio_recognition_handler IN
         (/\ h # 0
          /\ recognition_handlers[h].stt = "failed"
          /\ (HandleAudioChunk \/ HandleAudioEnd))
            => (ws_errors' > ws_errors /\ ~is_audio_active')]_vars

\* ------------------------------------------------ dropped frame claim
\* C25: every client_audio_chunk the server handles is processed (its
\* frame is accepted by the session's coordinator, or the session has an
\* active audio stream whose VAD sees it) or answered with a server_error.
C25_NoSilentDrop ==
    [][HandleAudioChunk =>
          LET h == audio_recognition_handler IN
          \/ /\ h # 0
             /\ recognition_handlers'[h].frames > recognition_handlers[h].frames
          \/ is_audio_active
          \/ ws_errors' > ws_errors]_vars

\* ------------------------------------------------ connection claims
\* C22: a session that has been expired for more than one tick has been
\* retired by the sweep: GET /api/sessions/{id} answers 404 and a
\* session_destroyed event has been published.
C22_ExpiredRetired ==
    \A sid \in SessionIds :
        \/ /\ GetSession(sid) = 404
           /\ "session_destroyed" \in events
        \/ sessions[sid] = Absent
        \/ ~IsExpired(sid)
        \/ now - sessions[sid] = SessionTimeout + 1

\* C23: once the disconnect has been handled, no STT streaming task of the
\* session's coordinators is live and no agent turn is running.
C23_DisconnectCancels ==
    ws_pc = "closed" =>
        /\ LiveHandlers = {}
        /\ ag_pc \in {"idle", "done", "failed"}

\* the frame is not valid JSON, has an unknown type, or a field of it is
\* missing or out of range
FailsValidation(f) ==
    ~f.json_ok \/ f.type \notin ClientTypes \/ ~f.fields_ok

C26_AuthFailureTerminal ==
    [][/\ \A k \in ApiKeys, a \in AppIds :
            (~(k = "valid" /\ a = "present") /\ Authenticate(k, a)) =>
                /\ ws_pc' = "closed"
                /\ sessions' = [s \in SessionIds |-> Absent]
                /\ ~ws_connected'
                /\ frames_received' = <<>>
       /\ ws_pc = "closed" =>
            /\ ws_pc' = "closed"
            /\ UNCHANGED <<sessions, ws_connected, frames_received,
                           seVars>>]_vars

\* authentication failed and time has passed since
C26_Witness ==
    /\ ws_pc = "closed"
    /\ ~ws_connected
    /\ now > 0

\* ------------------------------------------------------ event bus claim
\* C27: a publish that has ended returned normally and every callback of
\* its snapshot was called with the event, whatever the other callbacks
\* did; publish itself never changes the subscriber list.
C27_FailureIsolated ==
    [][/\ (PublishStart \/ PublishGather) => subscribers' = subscribers
       /\ (eb_pc' = "idle" /\ event_count' > 0) =>
            /\ eb_result' = "returned"
            /\ \A c \in SeqToSet(eb_snapshot') : invoked'[c] >= 1]_vars

\* a publish has ended whose snapshot had three callbacks, the second of
\* which raised, and all three are still subscribed
C27_Witness ==
    /\ eb_pc = "idle"
    /\ eb_result = "returned"
    /\ Len(eb_snapshot) = 3
    /\ cb_kind[eb_snapshot[2]] \in {"async_raises", "sync_raises",
                                     "sync_type_error"}
    /\ subscribers = eb_snapshot

\* C28: in the sequence of VAD events delivered to any one session there
\* are never two START_OF_SPEECH events without an END_OF_SPEECH between
\* them (only these two events are delivered, so: never two in a row)
C28_NoDoubleStart ==
    \A sid \in SessionIds :
        \A i \in 1 .. Len(vad_delivered[sid]) - 1 :
            ~(/\ vad_delivered[sid][i] = "START_OF_SPEECH"
              /\ vad_delivered[sid][i + 1] = "START_OF_SPEECH")

\* C29: start is idempotent per coordinator: however often start has been
\* called, at most one STT streaming task is consuming the audio queue,
\* and exactly one while the coordinator is started and not stopped
C29_OneSttTask ==
    /\ Cardinality(Consuming) <= 1
    /\ (stt_stream_task # 0 /\ stop_pc = "idle")
          => Cardinality(Consuming) = 1

\* C30 as stated: for every valid client message m, decoding m and
\* encoding the result yields m again: same type, same session_id, same
\* data
C30_RoundTrip ==
    wire_pc = "accepted" =>
        /\ wire_out.type = wire_in.type
        /\ wire_out.session_id = wire_in.session_id
        /\ wire_out.data = wire_in.data

\* a string without white space at either end
NoOuterSpace(v) == v # <<>> /\ Head(v) # SPACE /\ v[Len(v)] # SPACE

\* w is v without the white space around it
Trimmed(v, w) ==
    /\ NoOuterSpace(w)
    /\ \E i \in 1 .. Len(v) :
          /\ i + Len(w) - 1 <= Len(v)
          /\ SubSeq(v, i, i + Len(w) - 1) = w
          /\ \A k \in 1 .. Len(v) :
                (k < i \/ k > i + Len(w) - 1) => v[k] = SPACE

\* a message already in the form the encoder writes
Canonical(m) == NoOuterSpace(m.session_id) /\ m.data # "none" /\ ~m.extra

\* C30, amended: for every valid client message m the round trip keeps
\* the type, yields the session_id without the white space around it and
\* the data (an empty object if m had none), and yields m itself when m is
\* canonical
C30_RoundTripCanonical ==
    wire_pc = "accepted" =>
        /\ wire_out.type = wire_in.type
        /\ Trimmed(wire_in.session_id, wire_out.session_id)
        /\ wire_out.data = (IF wire_in.data = "none" THEN "empty"
                                                     ELSE wire_in.data)
        /\ Canonical(wire_in) => wire_out = wire_in

\* a valid message with white space around its session_id went through
C30_Witness ==
    /\ wire_pc = "accepted"
    /\ wire_in.session_id # wire_out.session_id
    /\ wire_in.data = "good"
    /\ ~wire_in.extra

\* C31: on a dashboard connection the initial_state snapshot is the first
\* message sent, and messages of type "event" are sent only after it
C31_InitialStateFirst ==
    /\ db_sent # <<>> => db_sent[1].type = "initial_state"
    /\ \A i \in 1 .. Len(db_sent) :
          db_sent[i].type = "event" =>
              \E j \in 1 .. i - 1 : db_sent[j].type = "initial_state"

\* C32: at most one EOU detection task is pending per coordinator: every
\* EOU task that has not finished is the one the coordinator references
\* in _eou_detection_task, so no running task is beyond its reach
C32_NoOrphanEouTask ==
    \A t \in DOMAIN eou_tasks : ~TaskDone(t) => t = eou_detection_task

\* the messages of one turn are next to each other in the conversation
SameTurn(a, b) == a.src = b.src /\ a.n = b.n

\* C33: at most one agent turn is in flight per session, a turn of the
\* receive loop and a turn of an EOU task never overlap, and the
\* conversation appends of two turns are never interleaved
C33_OneTurnInFlight ==
    /\ ~(TurnInFlight("text") /\ TurnInFlight("audio"))
    /\ \A i, j, k \in DOMAIN turn_conversation :
          (i < j /\ j < k
             /\ SameTurn(turn_conversation[i], turn_conversation[k]))
            => SameTurn(turn_conversation[i], turn_conversation[j])

\* C34: once an EOU task has committed and is running on_turn_end, no
\* START_OF_SPEECH event and no new final transcript cancels it (stop()
\* apart): the agent turn of a committed transcript runs to its end
C34_CommittedTurnNotCancelled ==
    [][\A t \in DOMAIN eou_tasks :
          (eou_tasks[t].st = "turn" /\ ~eou_tasks[t].creq /\ ~closing)
              => ~eou_tasks'[t].creq]_vars

\* C35: on_turn_end is never invoked with an empty transcript: a task
\* that wakes on an empty audio_transcript does nothing, and a task that
\* commits passes the transcript it read and has cleared audio_transcript,
\* the interim transcript and the time of the last final when the callback
\* starts, so a final arriving during the callback opens a new turn
C35_CommitNonEmptyCleared ==
    [][/\ Len(commits') > Len(commits) =>
             /\ commits'[Len(commits')].text # <<>>
             /\ commits'[Len(commits')].text = audio_transcript
             /\ audio_transcript' = <<>>
             /\ audio_interim_transcript' = <<>>
             /\ ~last_final_transcript_time'
       /\ \A t \in DOMAIN eou_tasks :
             (/\ eou_tasks[t].st = "sleep"
              /\ eou_tasks'[t].st # "sleep"
              /\ audio_transcript = <<>>)
                 => /\ commits' = commits
                    /\ eou_tasks'[t].st = "done"
                    /\ UNCHANGED <<audio_transcript, audio_interim_transcript>>]_vars

\* a final arrived while the callback of a committed turn was running
C35_Witness ==
    /\ Len(commits) >= 1
    /\ \E t \in DOMAIN eou_tasks : eou_tasks[t].st = "turn"
    /\ audio_transcript # <<>>
    /\ last_final_transcript_time

\* rounds whose response carried tool calls
ToolRounds ==
    Cardinality({ i \in DOMAIN messages :
                    messages[i].role = "assistant"
                        /\ messages[i].tool_calls # <<>> })

\* C36: with a tool_call_limit the tool-call loop of Model.response stops
\* re-invoking the model after a bounded number of rounds, whatever the
\* responses: every round with tool calls counts at least one call, so
\* the loop goes on to another invocation only while fewer than
\* tool_call_limit rounds have carried tool calls
C36_RoundsBounded ==
    (tool_call_limit # 0 /\ mr_pc = "loop") => ToolRounds < tool_call_limit

\* C37: after a client_audio_end frame has been handled the session's
\* is_audio_active flag is false, whatever the outcome of stopping the
\* coordinator
C37_AudioEndClearsFlag == [][HandleAudioEnd => ~is_audio_active']_vars

\* C38: whenever a session has an active audio stream and a VAD handler,
\* the sample rate of the VAD handler equals the sample rate of the stream
C38_VadRateMatchesStream ==
    (stream_active /\ vad_sample_rate # 0)
        => vad_sample_rate = stream_sample_rate

\* the positions of the events published for the call with id k
StartEvents(k) ==
    { i \in DOMAIN tool_events :
        tool_events[i] = [event_type |-> "tool_call_start", id |-> k] }
TerminalEvents(k) ==
    { i \in DOMAIN tool_events :
        /\ tool_events[i].id = k
        /\ tool_events[i].event_type
              \in {"tool_call_complete", "tool_call_error"} }

\* C39: for every tool call the loop has handled exactly one tool_call_start
\* and then exactly one terminal event (tool_call_complete or
\* tool_call_error) have been published, and no terminal event is ever
\* published without a tool_call_start before it.
C39_StartThenOneTerminal ==
    /\ \A k \in DOMAIN tool_outcomes :
          LET id == tool_calls_to_execute[k].id IN
          /\ Cardinality(StartEvents(id)) = 1
          /\ Cardinality(TerminalEvents(id)) = 1
    /\ \A i \in DOMAIN tool_events :
          tool_events[i].event_type # "tool_call_start" =>
              \E j \in StartEvents(tool_events[i].id) : j < i

\* C40: active_connections equals the number of open authenticated
\* connections, whatever attempts and closes have happened.
C40_ActiveConnectionsExact == active_connections = Cardinality(connections)

====
